---- MODULE Spec2Model ----
(***************************************************************************)
(* A model of cli/file_fetcher.rs: the FileFetcher that resolves a module  *)
(* specifier to a File through the in-memory FileCache, the local file     *)
(* system, the HttpCache on disk and the network (fetch_once).             *)
(*                                                                         *)
(* Strings (URLs, header values, paths) are TLA+ strings, taken apart with *)
(* Len and SubSeq; byte vectors are sequences of numbers 0..255 and        *)
(* decoded text is a sequence of code points.  Option<T> is a sequence of  *)
(* length <= 1: None is << >> and Some(x) is <<x>>.                        *)
(***************************************************************************)
EXTENDS Integers, Sequences, FiniteSets, TLC

-----------------------------------------------------------------------------
(* Strings *)

None == << >>

Some(x) == <<x>>

IsSome(o) == Len(o) = 1

Unwrap(o) == o[1]

\* str::starts_with
StartsWith(s, p) ==
  /\ Len(p) <= Len(s)
  /\ SubSeq(s, 1, Len(p)) = p

\* str::ends_with
EndsWith(s, p) ==
  /\ Len(p) <= Len(s)
  /\ SubSeq(s, Len(s) - Len(p) + 1, Len(s)) = p

\* the i-th character of a string
Char(s, i) == SubSeq(s, i, i)

\* the index of the first occurrence of ch in s at or after i, 0 when none
RECURSIVE ScanForward(_, _, _)
ScanForward(s, ch, i) ==
  IF i > Len(s) THEN 0
  ELSE IF Char(s, i) = ch THEN i
  ELSE ScanForward(s, ch, i + 1)

\* the index of the last occurrence of ch in s at or before i, 0 when none
RECURSIVE ScanBackward(_, _, _)
ScanBackward(s, ch, i) ==
  IF i < 1 THEN 0
  ELSE IF Char(s, i) = ch THEN i
  ELSE ScanBackward(s, ch, i - 1)

\* str::find(char): the index of the first occurrence, 0 when there is none
FirstIndex(s, ch) == ScanForward(s, ch, 1)

\* str::rfind(char): the index of the last occurrence, 0 when there is none
LastIndex(s, ch) == ScanBackward(s, ch, Len(s))

\* the suffix of s that starts at index i
From(s, i) == SubSeq(s, i, Len(s))

\* the prefix of s that ends at index i
UpTo(s, i) == SubSeq(s, 1, i)

RECURSIVE TrimStart(_)
TrimStart(s) ==
  IF s # "" /\ Head(s) = " " THEN TrimStart(Tail(s)) ELSE s

RECURSIVE TrimEnd(_)
TrimEnd(s) ==
  IF s # "" /\ Char(s, Len(s)) = " " THEN TrimEnd(UpTo(s, Len(s) - 1)) ELSE s

\* str::trim
Trim(s) == TrimEnd(TrimStart(s))

UpperCase == "ABCDEFGHIJKLMNOPQRSTUVWXYZ"

LowerCase == "abcdefghijklmnopqrstuvwxyz"

LowerChar(ch) ==
  IF FirstIndex(UpperCase, ch) = 0 THEN ch ELSE Char(LowerCase, FirstIndex(UpperCase, ch))

\* str::to_lowercase
RECURSIVE ToLowercase(_)
ToLowercase(s) ==
  IF s = "" THEN "" ELSE LowerChar(Head(s)) \o ToLowercase(Tail(s))

\* str::split(ch): the sequence of the pieces between the occurrences of ch
RECURSIVE Split(_, _)
Split(s, ch) ==
  IF FirstIndex(s, ch) = 0
  THEN <<s>>
  ELSE <<UpTo(s, FirstIndex(s, ch) - 1)>> \o Split(From(s, FirstIndex(s, ch) + 1), ch)

-----------------------------------------------------------------------------
(* URLs (the url crate as the fetcher uses it) *)

\* Url::scheme: the characters before the first ':'
url_scheme(u) == UpTo(u, FirstIndex(u, ":") - 1)

\* Url::set_fragment(None)
without_fragment(u) ==
  IF FirstIndex(u, "#") = 0 THEN u ELSE UpTo(u, FirstIndex(u, "#") - 1)

\* Url::set_query(None)
without_query(u) ==
  IF FirstIndex(u, "?") = 0 THEN u ELSE UpTo(u, FirstIndex(u, "?") - 1)

\* what follows "scheme://" in a URL without query and fragment
after_scheme(u) == From(without_query(without_fragment(u)), Len(url_scheme(u)) + 4)

\* scheme://host
url_origin(u) ==
  IF FirstIndex(after_scheme(u), "/") = 0
  THEN without_query(without_fragment(u))
  ELSE UpTo(u, Len(url_scheme(u)) + 3 + FirstIndex(after_scheme(u), "/") - 1)

\* Url::path
url_path(u) ==
  IF FirstIndex(after_scheme(u), "/") = 0
  THEN "/"
  ELSE From(after_scheme(u), FirstIndex(after_scheme(u), "/"))

\* Path::file_name of a path: what follows the last '/'
file_name(p) == From(p, LastIndex(p, "/") + 1)

\* Path::extension: what follows the last '.' of the file name, when the
\* file name has a '.' that is not its first character
path_extension(p) ==
  IF LastIndex(file_name(p), ".") <= 1
  THEN None
  ELSE Some(From(file_name(p), LastIndex(file_name(p), ".") + 1))

\* Path::file_stem: the file name without its extension
path_file_stem(p) ==
  IF file_name(p) = ""
  THEN None
  ELSE IF LastIndex(file_name(p), ".") <= 1
       THEN Some(file_name(p))
       ELSE Some(UpTo(file_name(p), LastIndex(file_name(p), ".") - 1))

RECURSIVE TrimSlashes(_)
TrimSlashes(s) ==
  IF s # "" /\ Char(s, Len(s)) = "/" THEN TrimSlashes(UpTo(s, Len(s) - 1)) ELSE s

\* PathBuf::pop on a relative path string: whether there is a parent
path_can_pop(p) == TrimSlashes(p) # ""

\* PathBuf::pop: the string truncated to its parent
path_pop(p) ==
  IF LastIndex(TrimSlashes(p), "/") = 0
  THEN ""
  ELSE TrimSlashes(UpTo(p, LastIndex(TrimSlashes(p), "/") - 1))

\* Url::to_file_path of a file URL: the path after "file://"
to_file_path(u) == url_path(u)

\* ModuleSpecifier::resolve_import(location, base) for the two shapes of
\* location a redirect carries: an absolute URL, or a path on the same host
resolve_import(location, base) ==
  IF StartsWith(location, "/") THEN url_origin(base) \o location ELSE location

-----------------------------------------------------------------------------
(* CacheSetting *)

SUPPORTED_SCHEMES == {"http", "https", "file"}

Only == [kind |-> "Only", list |-> {}]

ReloadAll == [kind |-> "ReloadAll", list |-> {}]

ReloadSome(list) == [kind |-> "ReloadSome", list |-> list]

Use == [kind |-> "Use", list |-> {}]

\* the loop of should_use: the path, then every parent PathBuf::pop yields
RECURSIVE some_prefix_listed(_, _)
some_prefix_listed(list, path) ==
  IF path \in list
  THEN TRUE
  ELSE IF path_can_pop(path) THEN some_prefix_listed(list, path_pop(path)) ELSE FALSE

\* a fault of should_use: a list entry matches every URL it is a string
\* prefix of, whether or not it ends at a path segment
should_use_string_prefix(setting, specifier) ==
  CASE setting.kind = "ReloadAll" -> FALSE
    [] setting.kind \in {"Use", "Only"} -> TRUE
    [] setting.kind = "ReloadSome" ->
         ~\E entry \in setting.list : StartsWith(without_fragment(specifier), entry)

\* CacheSetting::should_use
should_use(setting, specifier) ==
  CASE setting.kind = "ReloadAll" -> FALSE
    [] setting.kind \in {"Use", "Only"} -> TRUE
    [] setting.kind = "ReloadSome" ->
         IF without_fragment(specifier) \in setting.list
         THEN FALSE
         ELSE ~some_prefix_listed(setting.list, without_query(without_fragment(specifier)))

-----------------------------------------------------------------------------
(* Results and errors *)

NoFile ==
  [local |-> "", maybe_types |-> None, media_type |-> "Unknown",
   source |-> << >>, specifier |-> ""]

\* Ok(file), and for fetch_cached Ok(Some(file))
Ok(file) == [ok |-> TRUE, present |-> TRUE, file |-> file, err |-> "", about |-> ""]

\* the Ok(None) of fetch_cached
OkNone == [ok |-> TRUE, present |-> FALSE, file |-> NoFile, err |-> "", about |-> ""]

\* an error of class err; about is the specifier its message names
Err(err, about) ==
  [ok |-> FALSE, present |-> FALSE, file |-> NoFile, err |-> err, about |-> about]

\* get_validated_scheme: Ok(scheme), or the unsupported-scheme error
get_validated_scheme(specifier) ==
  IF url_scheme(specifier) \notin SUPPORTED_SCHEMES
  THEN [ok |-> FALSE, scheme |-> ""]
  ELSE [ok |-> TRUE, scheme |-> url_scheme(specifier)]

\* Permissions::check_specifier, for permissions that deny the set denied:
\* whether the check passes
check_specifier(denied, specifier) == specifier \notin denied

-----------------------------------------------------------------------------
(* MediaType *)

\* MediaType::from(&Path): the media type of a path, from its extension
media_type_from_path(p) ==
  IF ~IsSome(path_extension(p))
  THEN "Unknown"
  ELSE CASE Unwrap(path_extension(p)) = "ts" ->
              IF IsSome(path_file_stem(p)) /\ EndsWith(Unwrap(path_file_stem(p)), ".d")
              THEN "Dts"
              ELSE "TypeScript"
         [] Unwrap(path_extension(p)) = "tsx" -> "TSX"
         [] Unwrap(path_extension(p)) = "jsx" -> "JSX"
         [] Unwrap(path_extension(p)) \in {"js", "mjs", "cjs"} -> "JavaScript"
         [] Unwrap(path_extension(p)) = "json" -> "Json"
         [] Unwrap(path_extension(p)) = "wasm" -> "Wasm"
         [] OTHER -> "Unknown"

\* the path of a specifier: the file path of a file URL, else the URL's path
specifier_path(specifier) ==
  IF url_scheme(specifier) = "file" THEN to_file_path(specifier) ELSE url_path(specifier)

\* MediaType::from(&ModuleSpecifier)
media_type_from(specifier) == media_type_from_path(specifier_path(specifier))

\* a fault of map_js_like_extension: a ".d.ts" path is a declaration file
\* whatever the default
map_js_like_extension_any_default(specifier, default) ==
  IF ~IsSome(path_extension(specifier_path(specifier)))
  THEN default
  ELSE CASE Unwrap(path_extension(specifier_path(specifier))) = "jsx" -> "JSX"
         [] Unwrap(path_extension(specifier_path(specifier))) = "tsx" -> "TSX"
         [] Unwrap(path_extension(specifier_path(specifier))) = "ts" ->
              IF /\ IsSome(path_file_stem(specifier_path(specifier)))
                 /\ EndsWith(Unwrap(path_file_stem(specifier_path(specifier))), ".d")
              THEN "Dts"
              ELSE default
         [] OTHER -> default

\* map_js_like_extension
map_js_like_extension(specifier, default) ==
  IF ~IsSome(path_extension(specifier_path(specifier)))
  THEN default
  ELSE CASE Unwrap(path_extension(specifier_path(specifier))) = "jsx" -> "JSX"
         [] Unwrap(path_extension(specifier_path(specifier))) = "tsx" -> "TSX"
         [] Unwrap(path_extension(specifier_path(specifier))) = "ts" ->
              IF default = "TypeScript"
              THEN IF ~IsSome(path_file_stem(specifier_path(specifier)))
                   THEN default
                   ELSE IF EndsWith(Unwrap(path_file_stem(specifier_path(specifier))), ".d")
                        THEN "Dts"
                        ELSE default
              ELSE default
         [] OTHER -> default

TypeScriptMimes ==
  {"application/typescript", "text/typescript", "video/vnd.dlna.mpeg-tts",
   "video/mp2t", "application/x-typescript"}

JavaScriptMimes ==
  {"application/javascript", "text/javascript", "application/ecmascript",
   "text/ecmascript", "application/x-javascript", "application/node"}

\* a fault of map_content_type: a content type outside the table falls
\* back on the path
media_type_of_mime_path_fallback(specifier, mime) ==
  CASE mime \in TypeScriptMimes -> map_js_like_extension(specifier, "TypeScript")
    [] mime \in JavaScriptMimes -> map_js_like_extension(specifier, "JavaScript")
    [] mime \in {"application/json", "text/json"} -> "Json"
    [] mime = "application/wasm" -> "Wasm"
    [] OTHER -> media_type_from(specifier)

\* the match of map_content_type on the trimmed, lowercased first token
media_type_of_mime(specifier, mime) ==
  CASE mime \in TypeScriptMimes -> map_js_like_extension(specifier, "TypeScript")
    [] mime \in JavaScriptMimes -> map_js_like_extension(specifier, "JavaScript")
    [] mime \in {"application/json", "text/json"} -> "Json"
    [] mime = "application/wasm" -> "Wasm"
    [] mime \in {"text/plain", "application/octet-stream"} -> media_type_from(specifier)
    [] OTHER -> "Unknown"

\* a fault of map_content_type: the segments are not trimmed before the
\* prefix "charset=" is looked for
RECURSIVE find_charset_untrimmed(_)
find_charset_untrimmed(segments) ==
  IF segments = << >>
  THEN None
  ELSE IF StartsWith(Head(segments), "charset=")
       THEN Some(From(Head(segments), Len("charset=") + 1))
       ELSE find_charset_untrimmed(Tail(segments))

\* find_map(strip_prefix("charset=")) over the trimmed segments
RECURSIVE find_charset(_)
find_charset(segments) ==
  IF segments = << >>
  THEN None
  ELSE IF StartsWith(Trim(Head(segments)), "charset=")
       THEN Some(From(Trim(Head(segments)), Len("charset=") + 1))
       ELSE find_charset(Tail(segments))

\* map_content_type: <<media type, Option<charset>>>
map_content_type(specifier, maybe_content_type) ==
  IF IsSome(maybe_content_type)
  THEN <<media_type_of_mime(specifier,
           ToLowercase(Trim(Head(Split(Unwrap(maybe_content_type), ";"))))),
         find_charset(Tail(Split(Unwrap(maybe_content_type), ";")))>>
  ELSE <<media_type_from(specifier), None>>

-----------------------------------------------------------------------------
(* Text decoding: bytes are numbers 0..255, text is a sequence of code     *)
(* points; a decoder yields Some(text), or None when the bytes are invalid *)

\* Some(<<c>> \o text) when rest is Some(text), else None
Prepend(c, rest) == IF IsSome(rest) THEN Some(<<c>> \o Unwrap(rest)) ELSE None

IsCont(b) == b >= 128 /\ b <= 191

\* String::from_utf8: UTF-8 validation and decoding, a leading BOM is kept
RECURSIVE from_utf8(_)
from_utf8(b) ==
  IF b = << >> THEN Some(<< >>)
  ELSE IF b[1] < 128 THEN Prepend(b[1], from_utf8(Tail(b)))
  ELSE IF /\ b[1] >= 194 /\ b[1] <= 223
          /\ Len(b) >= 2 /\ IsCont(b[2])
       THEN Prepend((b[1] - 192) * 64 + (b[2] - 128), from_utf8(SubSeq(b, 3, Len(b))))
  ELSE IF /\ b[1] >= 224 /\ b[1] <= 239
          /\ Len(b) >= 3 /\ IsCont(b[2]) /\ IsCont(b[3])
          /\ (b[1] = 224 => b[2] >= 160)
          /\ (b[1] = 237 => b[2] <= 159)
       THEN Prepend((b[1] - 224) * 4096 + (b[2] - 128) * 64 + (b[3] - 128),
                    from_utf8(SubSeq(b, 4, Len(b))))
  ELSE IF /\ b[1] >= 240 /\ b[1] <= 244
          /\ Len(b) >= 4 /\ IsCont(b[2]) /\ IsCont(b[3]) /\ IsCont(b[4])
          /\ (b[1] = 240 => b[2] >= 144)
          /\ (b[1] = 244 => b[2] <= 143)
       THEN Prepend((b[1] - 240) * 262144 + (b[2] - 128) * 4096
                      + (b[3] - 128) * 64 + (b[4] - 128),
                    from_utf8(SubSeq(b, 5, Len(b))))
  ELSE None

IsHighSurrogate(u) == u >= 55296 /\ u <= 56319

IsLowSurrogate(u) == u >= 56320 /\ u <= 57343

\* the decoding of a sequence of UTF-16 code units
RECURSIVE from_utf16_units(_)
from_utf16_units(u) ==
  IF u = << >> THEN Some(<< >>)
  ELSE IF IsHighSurrogate(u[1])
       THEN IF Len(u) >= 2 /\ IsLowSurrogate(u[2])
            THEN Prepend(65536 + (u[1] - 55296) * 1024 + (u[2] - 56320),
                         from_utf16_units(SubSeq(u, 3, Len(u))))
            ELSE None
  ELSE IF IsLowSurrogate(u[1]) THEN None
  ELSE Prepend(u[1], from_utf16_units(Tail(u)))

\* UTF-16 decoding, little endian (le) or big endian, a leading BOM is kept
from_utf16(b, le) ==
  IF Len(b) % 2 # 0
  THEN None
  ELSE from_utf16_units(
         [i \in 1..(Len(b) \div 2) |->
            IF le THEN b[2 * i - 1] + 256 * b[2 * i] ELSE 256 * b[2 * i - 1] + b[2 * i]])

\* text_encoding::detect_charset: the charset a leading byte-order mark names
detect_charset(bytes) ==
  IF StartsWith(bytes, <<239, 187, 191>>) THEN "utf-8"
  ELSE IF StartsWith(bytes, <<255, 254>>) THEN "utf-16le"
  ELSE IF StartsWith(bytes, <<254, 255>>) THEN "utf-16be"
  ELSE "utf-8"

\* text_encoding::convert_to_utf8: decoding from a declared charset
convert_to_utf8(bytes, charset) ==
  CASE ToLowercase(Trim(charset)) \in {"utf-8", "utf8"} -> from_utf8(bytes)
    [] ToLowercase(Trim(charset)) \in {"utf-16le", "utf-16"} -> from_utf16(bytes, TRUE)
    [] ToLowercase(Trim(charset)) = "utf-16be" -> from_utf16(bytes, FALSE)
    [] OTHER -> None

\* get_source_from_bytes
get_source_from_bytes(bytes, maybe_charset) ==
  IF IsSome(maybe_charset)
  THEN convert_to_utf8(bytes, Unwrap(maybe_charset))
  ELSE from_utf8(bytes)

\* the index of the first code point c of a text, 0 when there is none
FindCode(t, c) ==
  IF \E i \in 1..Len(t) : t[i] = c
  THEN CHOOSE i \in 1..Len(t) : t[i] = c /\ \A j \in 1..(i - 1) : t[j] # c
  ELSE 0

\* "#!" as code points
ShebangPrefix == <<35, 33>>

\* '\n' as a one-character text
NewlineText == <<10>>

\* the index of the last code point c of a text, 0 when there is none
FindLastCode(t, c) ==
  IF \E i \in 1..Len(t) : t[i] = c
  THEN CHOOSE i \in 1..Len(t) : t[i] = c /\ \A j \in (i + 1)..Len(t) : t[j] # c
  ELSE 0

\* a fault of strip_shebang: the text is split at its last newline
strip_shebang_at_last_newline(value) ==
  IF StartsWith(value, ShebangPrefix)
  THEN IF FindLastCode(value, NewlineText[1]) # 0
       THEN From(value, FindLastCode(value, NewlineText[1]))
       ELSE << >>
  ELSE value

\* a fault of strip_shebang: the newline is removed with the shebang line
strip_shebang_dropping_newline(value) ==
  IF StartsWith(value, ShebangPrefix)
  THEN IF FindCode(value, NewlineText[1]) # 0
       THEN From(value, FindCode(value, NewlineText[1]) + 1)
       ELSE << >>
  ELSE value

\* strip_shebang
strip_shebang(value) ==
  IF StartsWith(value, ShebangPrefix)
  THEN IF FindCode(value, NewlineText[1]) # 0
       THEN From(value, FindCode(value, NewlineText[1]))
       ELSE << >>
  ELSE value

-----------------------------------------------------------------------------
(* The world the fetcher runs in: specifiers, what the server may answer,  *)
(* what the local file system may hold                                     *)

SpecA == "http://h/a/m.ts"

SpecB == "https://h/b.js"

SpecC == "https://h/c.js"

SpecL == "file:///l.ts"

SpecU == "ftp://h/u.ts"

RemoteSpecifiers == {SpecA, SpecB, SpecC}

Specifiers == RemoteSpecifiers \cup {SpecL, SpecU}

\* the permissions a caller may pass: allow all, or deny SpecC, SpecL, SpecU
PermissionChoices == {{}, {SpecC, SpecL, SpecU}}

\* the arguments of the calls of fetch: every specifier with every
\* permission that matters to it (SpecA reaches SpecC only through SpecB)
FetchArguments ==
  {a \in Specifiers \X PermissionChoices : a[2] = {} \/ a[1] \in {SpecB, SpecC, SpecL, SpecU}}

\* the --reload=... list of the ReloadSome setting
ReloadList == {"http://h/a"}

CacheSettings == {Only, ReloadAll, ReloadSome(ReloadList), Use}

\* the arguments of FileFetcher::new: every cache setting with remote
\* access, and --no-remote with the default setting
FetcherConfigs ==
  {[cache_setting |-> cs, allow_remote |-> TRUE] : cs \in CacheSettings}
    \cup {[cache_setting |-> Use, allow_remote |-> FALSE]}

\* a header map is a function from header names to values
NoHeaders == [k \in {} |-> ""]

\* HashMap::get
HeaderGet(headers, key) ==
  IF key \in DOMAIN headers THEN Some(headers[key]) ELSE None

\* the location header values the server may answer a request of url with
RedirectLocations(url) ==
  CASE url = SpecA -> {SpecB}
    [] url = SpecB -> {"/c.js", SpecA}
    [] OTHER -> {}

\* the header map of a redirect response
RedirectHeaders(location) == [k \in {"location"} |-> location]

TypedHeaders ==
  [k \in {"content-type", "etag", "x-typescript-types"} |->
     CASE k = "content-type" -> "Application/TypeScript; charset=utf-8"
       [] k = "etag" -> "e1"
       [] k = "x-typescript-types" -> "./t.d.ts"]

\* the content responses: a script with a shebang line and typed headers, a
\* plain script without headers, and bytes that are not UTF-8
TypedResponse == [bytes |-> <<35, 33, 10, 120>>, headers |-> TypedHeaders]
PlainResponse == [bytes |-> <<121>>, headers |-> NoHeaders]
BrokenResponse == [bytes |-> <<255>>, headers |-> NoHeaders]

\* the bodies and header maps of the content responses the server may give
\* for a URL
ContentResponses(url) ==
  CASE url = SpecA -> {TypedResponse}
    [] url = SpecB -> {PlainResponse}
    [] OTHER -> {TypedResponse, BrokenResponse}

\* what a local file may hold: a shebang line without newline, UTF-16LE
\* with a byte-order mark, and bytes that are not UTF-8
LocalContents == {<<35, 33, 120>>, <<255, 254, 120, 0>>, <<255>>}

-----------------------------------------------------------------------------
(* HttpCache and the construction of Files *)

\* HttpCache::get_cache_filename
get_cache_filename(url) == "deps/" \o url

\* HttpCache::set: the store with the entry of url overwritten
http_cache_set(st, url, headers, bytes) ==
  [u \in DOMAIN st \cup {url} |->
     IF u = url THEN [headers |-> headers, bytes |-> bytes] ELSE st[u]]

\* build_remote_file
build_remote_file(specifier, bytes, headers) ==
  LET mapped == map_content_type(specifier, HeaderGet(headers, "content-type"))
      source == get_source_from_bytes(bytes, mapped[2])
  IN  IF IsSome(source)
      THEN Ok([local |-> get_cache_filename(specifier),
               maybe_types |-> HeaderGet(headers, "x-typescript-types"),
               media_type |-> mapped[1],
               source |-> strip_shebang(Unwrap(source)),
               specifier |-> specifier])
      ELSE Err("Decode", specifier)

\* a fault of fetch_local: the File is named as a remote file is, by its
\* place in the store
fetch_local_named_as_remote(specifier, maybe_bytes) ==
  IF ~IsSome(maybe_bytes)
  THEN Err("Io", specifier)
  ELSE LET charset == detect_charset(Unwrap(maybe_bytes))
           source == get_source_from_bytes(Unwrap(maybe_bytes), Some(charset))
       IN  IF IsSome(source)
           THEN Ok([local |-> get_cache_filename(specifier),
                    maybe_types |-> None,
                    media_type |-> media_type_from(specifier),
                    source |-> strip_shebang(Unwrap(source)),
                    specifier |-> specifier])
           ELSE Err("Decode", specifier)

\* fetch_local once the file is read: maybe_bytes is Some(content), or None
\* when fs::read fails
fetch_local(specifier, maybe_bytes) ==
  IF ~IsSome(maybe_bytes)
  THEN Err("Io", specifier)
  ELSE LET charset == detect_charset(Unwrap(maybe_bytes))
           source == get_source_from_bytes(Unwrap(maybe_bytes), Some(charset))
       IN  IF IsSome(source)
           THEN Ok([local |-> to_file_path(specifier),
                    maybe_types |-> None,
                    media_type |-> media_type_from(specifier),
                    source |-> strip_shebang(Unwrap(source)),
                    specifier |-> specifier])
           ELSE Err("Decode", specifier)

-----------------------------------------------------------------------------
(* State *)

VARIABLES
  store,          \* the HttpCache on disk: URL -> [headers, bytes]
  cache,          \* FileFetcher.cache, the in-memory FileCache: specifier -> File
  cache_setting,  \* FileFetcher.cache_setting
  allow_remote,   \* FileFetcher.allow_remote
  call,           \* the calls in flight: each call's position and locals
  ret,            \* what the last get_cached or insert_cached returned
  fetched,        \* the specifiers a fetch of this fetcher has succeeded for
  lock,           \* the holder of the FileCache mutex, if any
  probe,          \* the helper function applied last, its arguments and result
  nops,           \* the calls made so far
  nfetchers       \* the fetchers constructed after the first one

vars ==
  <<store, cache, cache_setting, allow_remote, call, ret, fetched, lock, probe,
    nops, nfetchers>>

\* the calls one behaviour makes
MaxOps == 2

\* the fetchers one behaviour constructs after the first one
MaxNewFetchers == 1

\* the redirect limits the direct calls of fetch_remote and fetch_cached pass
DirectLimits == {0, 1, 2}

\* the redirect limit fetch passes to fetch_remote
FetchRedirectLimit == 10

\* the redirect limit fetch_remote passes to fetch_cached after NotModified
NotModifiedRedirectLimit == 10

Calls == {1, 2}

\* the calls of the sequential specification
SeqCalls == {1}

\* a call that has not started: pc is the call's position; kind is the entry
\* point; specifier, denied and budget are its arguments (budget is the
\* redirect limit); hop and limit are the specifier and redirect_limit of
\* the fetch_remote frame; cur and climit those of the fetch_cached frame,
\* and from is the caller of fetch_cached; etag is the cached_etag of the
\* request.  The rest records what the call has done so far: store0 is the
\* store when the call started, path the specifiers of the resolution from
\* the requested one to the current one, hlen the length of path at the
\* fetch_remote frame, notmodified whether a request was answered 304,
\* received the content response, requested the URLs requested from the
\* network, checked the specifiers whose permission was checked, reads and
\* writes the URLs read from and written to the store, fsreads the number
\* of file system reads
IdleCall ==
  [pc |-> "idle", kind |-> "", specifier |-> "", denied |-> {}, budget |-> 0,
   hop |-> "", limit |-> 0, cur |-> "", climit |-> 0, from |-> "",
   etag |-> None, result |-> Err("", ""),
   store0 |-> << >>, path |-> << >>, hlen |-> 0, notmodified |-> FALSE,
   received |-> None,
   requested |-> << >>, checked |-> {}, reads |-> << >>, writes |-> << >>,
   fsreads |-> 0]

\* no helper function has been applied
NoProbe == [fn |-> "", args |-> << >>, result |-> << >>]

Init ==
  /\ store = << >>
  /\ cache = << >>
  /\ \E config \in FetcherConfigs :
       /\ cache_setting = config.cache_setting
       /\ allow_remote = config.allow_remote
  /\ call = [c \in Calls |-> IdleCall]
  /\ ret = None
  /\ fetched = {}
  /\ lock = None
  /\ probe = NoProbe
  /\ nops = 0
  /\ nfetchers = 0

-----------------------------------------------------------------------------
(* The steps of a call, as functions of the call's record *)

\* a call of the entry point kind with its arguments
StartCall(kind, specifier, denied, budget, st) ==
  [IdleCall EXCEPT !.kind = kind, !.specifier = specifier, !.denied = denied,
                   !.budget = budget, !.store0 = st, !.path = <<specifier>>]

\* the redirect hops of the resolution so far
Depth(r) == Len(r.path) - 1

\* the call returns res
Finish(r, res) == [r EXCEPT !.pc = "done", !.result = res]

\* the call enters fetch_remote(specifier, permissions, limit)
EnterRemote(r, specifier, limit) ==
  [r EXCEPT !.pc = "remote", !.hop = specifier, !.limit = limit,
            !.hlen = Len(r.path)]

\* the call enters fetch_cached(specifier, limit) on behalf of from
EnterCached(r, specifier, limit, from) ==
  [r EXCEPT !.pc = "cached", !.cur = specifier, !.climit = limit, !.from = from]

Checked(r, specifier) == [r EXCEPT !.checked = @ \cup {specifier}]

\* a fault of FileCache::get: the lookup never finds an entry
cache_get_missing(fc, specifier) == None

\* FileCache::get
cache_get(fc, specifier) ==
  IF specifier \in DOMAIN fc THEN Some(fc[specifier]) ELSE None

\* a fault of FileCache::insert: the map holds the inserted entry alone
cache_insert_evicting(fc, specifier, file) == [k \in {specifier} |-> file]

\* a fault of FileCache::insert: an entry that exists is kept
cache_insert_if_absent(fc, specifier, file) ==
  [k \in DOMAIN fc \cup {specifier} |-> IF k \in DOMAIN fc THEN fc[k] ELSE file]

\* FileCache::insert: the map after the insertion
cache_insert(fc, specifier, file) ==
  [k \in DOMAIN fc \cup {specifier} |-> IF k = specifier THEN file ELSE fc[k]]

\* a fault of fetch: the in-memory cache is never consulted
fetch_entry_without_lookup(r, fc, remote) ==
  IF ~get_validated_scheme(r.specifier).ok
  THEN Finish(r, Err("UnsupportedScheme", r.specifier))
  ELSE IF ~check_specifier(r.denied, r.specifier)
  THEN Finish(Checked(r, r.specifier), Err("PermissionDenied", r.specifier))
  ELSE IF get_validated_scheme(r.specifier).scheme = "file"
  THEN [Checked(r, r.specifier) EXCEPT !.pc = "local"]
  ELSE IF ~remote
  THEN Finish(Checked(r, r.specifier), Err("NoRemote", r.specifier))
  ELSE EnterRemote(Checked(r, r.specifier), r.specifier, FetchRedirectLimit)

\* a fault of fetch: the in-memory cache is consulted before the scheme is
\* validated and the permission checked
fetch_entry_lookup_first(r, fc, remote) ==
  IF IsSome(cache_get(fc, r.specifier))
  THEN Finish(r, Ok(Unwrap(cache_get(fc, r.specifier))))
  ELSE IF ~get_validated_scheme(r.specifier).ok
  THEN Finish(r, Err("UnsupportedScheme", r.specifier))
  ELSE IF ~check_specifier(r.denied, r.specifier)
  THEN Finish(Checked(r, r.specifier), Err("PermissionDenied", r.specifier))
  ELSE IF get_validated_scheme(r.specifier).scheme = "file"
  THEN [Checked(r, r.specifier) EXCEPT !.pc = "local"]
  ELSE IF ~remote
  THEN Finish(Checked(r, r.specifier), Err("NoRemote", r.specifier))
  ELSE EnterRemote(Checked(r, r.specifier), r.specifier, FetchRedirectLimit)

\* a fault of fetch: the allow_remote flag is ignored
fetch_entry_ignoring_no_remote(r, fc, remote) ==
  IF ~get_validated_scheme(r.specifier).ok
  THEN Finish(r, Err("UnsupportedScheme", r.specifier))
  ELSE IF ~check_specifier(r.denied, r.specifier)
  THEN Finish(Checked(r, r.specifier), Err("PermissionDenied", r.specifier))
  ELSE IF IsSome(cache_get(fc, r.specifier))
  THEN Finish(Checked(r, r.specifier), Ok(Unwrap(cache_get(fc, r.specifier))))
  ELSE IF get_validated_scheme(r.specifier).scheme = "file"
  THEN [Checked(r, r.specifier) EXCEPT !.pc = "local"]
  ELSE EnterRemote(Checked(r, r.specifier), r.specifier, FetchRedirectLimit)

\* a fault of fetch: the permission is checked before the scheme is validated
fetch_entry_permission_first(r, fc, remote) ==
  IF ~check_specifier(r.denied, r.specifier)
  THEN Finish(Checked(r, r.specifier), Err("PermissionDenied", r.specifier))
  ELSE IF ~get_validated_scheme(r.specifier).ok
  THEN Finish(Checked(r, r.specifier), Err("UnsupportedScheme", r.specifier))
  ELSE IF IsSome(cache_get(fc, r.specifier))
  THEN Finish(Checked(r, r.specifier), Ok(Unwrap(cache_get(fc, r.specifier))))
  ELSE IF get_validated_scheme(r.specifier).scheme = "file"
  THEN [Checked(r, r.specifier) EXCEPT !.pc = "local"]
  ELSE IF ~remote
  THEN Finish(Checked(r, r.specifier), Err("NoRemote", r.specifier))
  ELSE EnterRemote(Checked(r, r.specifier), r.specifier, FetchRedirectLimit)

\* fetch, from its entry to the dispatch: scheme validation, permission
\* check, in-memory lookup, then fetch_local, NoRemote or fetch_remote
fetch_entry(r, fc, remote) ==
  IF ~get_validated_scheme(r.specifier).ok
  THEN Finish(r, Err("UnsupportedScheme", r.specifier))
  ELSE IF ~check_specifier(r.denied, r.specifier)
  THEN Finish(Checked(r, r.specifier), Err("PermissionDenied", r.specifier))
  ELSE IF IsSome(cache_get(fc, r.specifier))
  THEN Finish(Checked(r, r.specifier), Ok(Unwrap(cache_get(fc, r.specifier))))
  ELSE IF get_validated_scheme(r.specifier).scheme = "file"
  THEN [Checked(r, r.specifier) EXCEPT !.pc = "local"]
  ELSE IF ~remote
  THEN Finish(Checked(r, r.specifier), Err("NoRemote", r.specifier))
  ELSE EnterRemote(Checked(r, r.specifier), r.specifier, FetchRedirectLimit)

\* a fault of fetch: whatever the call returns is inserted
fetch_exit_any_result(fc, r) ==
  IF r.pc = "done" /\ r.kind = "fetch"
  THEN cache_insert(fc, r.specifier, r.result.file)
  ELSE fc

\* a fault of fetch: the File is inserted under its own specifier
fetch_exit_keyed_by_final(fc, r) ==
  IF r.pc = "done" /\ r.kind = "fetch" /\ r.result.ok
  THEN cache_insert(fc, r.result.file.specifier, r.result.file)
  ELSE fc

\* the end of fetch: a File that was fetched is inserted under the requested
\* specifier, an error leaves the cache alone
fetch_exit(fc, r) ==
  IF r.pc = "done" /\ r.kind = "fetch" /\ r.result.ok
  THEN cache_insert(fc, r.specifier, r.result.file)
  ELSE fc

\* a fault of fetch_remote: cache-only mode falls through to the network
cache_miss_without_only(r, setting, st) ==
  [r EXCEPT !.pc = "await",
            !.path = SubSeq(r.path, 1, r.hlen),
            !.etag = IF r.hop \in DOMAIN st
                     THEN HeaderGet(st[r.hop].headers, "etag")
                     ELSE None,
            !.reads = Append(@, r.hop),
            !.requested = Append(@, r.hop)]

\* a fault of fetch_remote: the request never carries an etag
cache_miss_without_etag(r, setting, st) ==
  IF setting = Only
  THEN Finish(r, Err("NotFound", r.hop))
  ELSE [r EXCEPT !.pc = "await",
                 !.path = SubSeq(r.path, 1, r.hlen),
                 !.etag = None,
                 !.reads = Append(@, r.hop),
                 !.requested = Append(@, r.hop)]

\* fetch_remote when the cache is not used or holds nothing: cache-only
\* mode fails, else the cached etag is read and the request is sent
cache_miss(r, setting, st) ==
  IF setting = Only
  THEN Finish(r, Err("NotFound", r.hop))
  ELSE [r EXCEPT !.pc = "await",
                 !.path = SubSeq(r.path, 1, r.hlen),
                 !.etag = IF r.hop \in DOMAIN st
                          THEN HeaderGet(st[r.hop].headers, "etag")
                          ELSE None,
                 !.reads = Append(@, r.hop),
                 !.requested = Append(@, r.hop)]

\* a fault of fetch_remote: the store is never consulted before the request
remote_entry_always_network(r, setting, st) ==
  IF r.limit < 0
  THEN Finish(r, Err("TooManyRedirects", ""))
  ELSE IF ~check_specifier(r.denied, r.hop)
  THEN Finish(Checked(r, r.hop), Err("PermissionDenied", r.hop))
  ELSE cache_miss(Checked(r, r.hop), setting, st)

\* fetch_remote, from its entry to the call of fetch_cached or the request
remote_entry(r, setting, st) ==
  IF r.limit < 0
  THEN Finish(r, Err("TooManyRedirects", ""))
  ELSE IF ~check_specifier(r.denied, r.hop)
  THEN Finish(Checked(r, r.hop), Err("PermissionDenied", r.hop))
  ELSE IF should_use(setting, r.hop)
  THEN EnterCached(Checked(r, r.hop), r.hop, r.limit, "remote")
  ELSE cache_miss(Checked(r, r.hop), setting, st)

\* a fault of fetch_remote: after 'not present' the request is sent for the
\* specifier fetch_cached stopped at
cached_return_requesting_target(r, v, setting, st) ==
  CASE r.from = "direct" -> Finish(r, v)
    [] r.from = "remote" ->
         IF v.ok /\ ~v.present
         THEN cache_miss([r EXCEPT !.hop = r.cur], setting, st)
         ELSE Finish(r, v)
    [] r.from = "notmodified" ->
         IF v.ok /\ ~v.present THEN [r EXCEPT !.pc = "panicked"] ELSE Finish(r, v)

\* fetch_cached returns v to its caller
cached_return(r, v, setting, st) ==
  CASE r.from = "direct" -> Finish(r, v)
    [] r.from = "remote" ->
         IF v.ok /\ ~v.present THEN cache_miss(r, setting, st) ELSE Finish(r, v)
    [] r.from = "notmodified" ->
         \* fetch_cached(&specifier, 10)?.unwrap()
         IF v.ok /\ ~v.present THEN [r EXCEPT !.pc = "panicked"] ELSE Finish(r, v)

Read(r, url) == [r EXCEPT !.reads = Append(@, url)]

\* a fault of fetch_cached: a budget of zero is rejected already
cached_step_off_by_one(r, setting, st) ==
  IF r.climit <= 0
  THEN cached_return(r, Err("TooManyRedirects", ""), setting, st)
  ELSE IF r.cur \notin DOMAIN st
  THEN cached_return(Read(r, r.cur), OkNone, setting, st)
  ELSE IF IsSome(HeaderGet(st[r.cur].headers, "location"))
  THEN [Read(r, r.cur) EXCEPT
          !.cur = resolve_import(Unwrap(HeaderGet(st[r.cur].headers, "location")), r.cur),
          !.climit = r.climit - 1,
          !.path = Append(r.path,
            resolve_import(Unwrap(HeaderGet(st[r.cur].headers, "location")), r.cur))]
  ELSE cached_return(Read(r, r.cur),
                     build_remote_file(r.cur, st[r.cur].bytes, st[r.cur].headers),
                     setting, st)

\* one frame of fetch_cached
cached_step(r, setting, st) ==
  IF r.climit < 0
  THEN cached_return(r, Err("TooManyRedirects", ""), setting, st)
  ELSE IF r.cur \notin DOMAIN st
  THEN cached_return(Read(r, r.cur), OkNone, setting, st)
  ELSE IF IsSome(HeaderGet(st[r.cur].headers, "location"))
  THEN [Read(r, r.cur) EXCEPT
          !.cur = resolve_import(Unwrap(HeaderGet(st[r.cur].headers, "location")), r.cur),
          !.climit = r.climit - 1,
          !.path = Append(r.path,
            resolve_import(Unwrap(HeaderGet(st[r.cur].headers, "location")), r.cur))]
  ELSE cached_return(Read(r, r.cur),
                     build_remote_file(r.cur, st[r.cur].bytes, st[r.cur].headers),
                     setting, st)

\* FetchOnceResult::NotModified
on_not_modified(r) ==
  [EnterCached(r, r.hop, NotModifiedRedirectLimit, "notmodified") EXCEPT
     !.notmodified = TRUE]

\* the URL fetch_once resolves a location header to
redirect_url(url, location) == resolve_import(location, url)

\* a fault of fetch_remote: the redirect record is written for the target
store_redirect_under_target(st, r, location) ==
  http_cache_set(st, redirect_url(r.hop, location), RedirectHeaders(location), << >>)

\* FetchOnceResult::Redirect: the store once the redirect record is written
store_redirect(st, r, location) ==
  http_cache_set(st, r.hop, RedirectHeaders(location), << >>)

\* FetchOnceResult::Redirect: the call recurses into fetch_remote
on_redirect(r, location) ==
  EnterRemote([r EXCEPT !.writes = Append(@, r.hop),
                        !.path = Append(@, redirect_url(r.hop, location))],
              redirect_url(r.hop, location), r.limit - 1)

\* FetchOnceResult::Code: the store once the content record is written
store_code(st, r, response) ==
  http_cache_set(st, r.hop, response.headers, response.bytes)

\* FetchOnceResult::Code: the File is built from the response
on_code(r, response) ==
  Finish([r EXCEPT !.writes = Append(@, r.hop), !.received = Some(response)],
         build_remote_file(r.hop, response.bytes, response.headers))

-----------------------------------------------------------------------------
(* Actions *)

\* the Files a caller seeds the in-memory cache with
SyntheticFiles ==
  {[local |-> "/mem", maybe_types |-> None, media_type |-> "JavaScript",
    source |-> <<122>>, specifier |-> s] : s \in {SpecB, SpecU}}

CanStart(c) ==
  /\ call[c].pc \in {"idle", "done"}
  /\ nops < MaxOps

\* call c moves to record r, with the store left as st: a fetch that ends
\* here inserts its File
Step(c, r, st) ==
  /\ call' = [call EXCEPT ![c] = r]
  /\ store' = st
  /\ cache' = fetch_exit(cache, r)
  /\ fetched' = IF r.pc = "done" /\ r.kind = "fetch" /\ r.result.ok
                THEN fetched \cup {r.specifier}
                ELSE fetched
  /\ UNCHANGED <<cache_setting, allow_remote, ret, nops, nfetchers, lock, probe>>

\* FileFetcher::fetch is called
Fetch(c, specifier, denied) ==
  /\ CanStart(c)
  /\ call' = [call EXCEPT ![c] =
       fetch_entry(StartCall("fetch", specifier, denied, FetchRedirectLimit, store),
                   cache, allow_remote)]
  /\ fetched' = IF call'[c].pc = "done" /\ call'[c].result.ok
                THEN fetched \cup {specifier}
                ELSE fetched
  /\ nops' = nops + 1
  /\ UNCHANGED <<store, cache, cache_setting, allow_remote, ret, nfetchers, lock, probe>>

\* fetch_remote is called directly (as the tests do), with redirect limit b
CallFetchRemote(c, b) ==
  /\ CanStart(c)
  /\ call' = [call EXCEPT ![c] =
       EnterRemote(StartCall("fetch_remote", SpecA, {}, b, store), SpecA, b)]
  /\ nops' = nops + 1
  /\ UNCHANGED <<store, cache, cache_setting, allow_remote, ret, fetched, nfetchers, lock, probe>>

\* fetch_cached is called directly (as the tests do), with redirect limit b
CallFetchCached(c, b) ==
  /\ CanStart(c)
  /\ call' = [call EXCEPT ![c] =
       EnterCached(StartCall("fetch_cached", SpecA, {}, b, store), SpecA, b, "direct")]
  /\ nops' = nops + 1
  /\ UNCHANGED <<store, cache, cache_setting, allow_remote, ret, fetched, nfetchers, lock, probe>>

\* fetch_local: the file is read (or the read fails) and decoded
FetchLocal(c) ==
  /\ call[c].pc = "local"
  /\ \E bytes \in {None} \cup {Some(b) : b \in LocalContents} :
       Step(c, Finish([call[c] EXCEPT !.fsreads = @ + 1],
                      fetch_local(call[c].specifier, bytes)),
            store)

\* fetch_remote up to its call of fetch_cached or to the request
FetchRemote(c) ==
  /\ call[c].pc = "remote"
  /\ Step(c, remote_entry(call[c], cache_setting, store), store)

\* one frame of fetch_cached, and what its caller does when it returns
FetchCached(c) ==
  /\ call[c].pc = "cached"
  /\ Step(c, cached_step(call[c], cache_setting, store), store)

\* the request is answered 304
NotModified(c) ==
  /\ call[c].pc = "await"
  /\ Step(c, on_not_modified(call[c]), store)

\* the request is answered with a redirect
Redirect(c) ==
  /\ call[c].pc = "await"
  /\ \E location \in RedirectLocations(call[c].hop) :
       Step(c, on_redirect(call[c], location), store_redirect(store, call[c], location))

\* the request is answered with content
Code(c) ==
  /\ call[c].pc = "await"
  /\ \E response \in ContentResponses(call[c].hop) :
       Step(c, on_code(call[c], response), store_code(store, call[c], response))

\* the request fails
TransportError(c) ==
  /\ call[c].pc = "await"
  /\ Step(c, Finish(call[c], Err("Transport", call[c].hop)), store)

\* no call is in flight
Quiet == \A c \in Calls : call[c].pc \in {"idle", "done", "panicked"}

\* FileFetcher::get_cached, between two calls
GetCached(specifier) ==
  /\ nops < MaxOps
  /\ Quiet
  /\ ret' = cache_get(cache, specifier)
  /\ nops' = nops + 1
  /\ UNCHANGED <<store, cache, cache_setting, allow_remote, call, fetched, nfetchers, lock, probe>>

\* FileFetcher::insert_cached, between two calls
InsertCached(file) ==
  /\ nops < MaxOps
  /\ Quiet
  /\ ret' = cache_get(cache, file.specifier)
  /\ cache' = cache_insert(cache, file.specifier, file)
  /\ nops' = nops + 1
  /\ UNCHANGED <<store, cache_setting, allow_remote, call, fetched, nfetchers, lock, probe>>

\* FileFetcher::new on the same HttpCache location, once no call is in
\* flight: another fetcher (another run) over the same store.  A fetcher
\* constructed over an empty store is the initial state again, so it is
\* constructed once the store holds a record
NewFetcher(config) ==
  /\ nfetchers < MaxNewFetchers
  /\ Quiet
  /\ store # << >>
  /\ cache' = << >>
  /\ cache_setting' = config.cache_setting
  /\ allow_remote' = config.allow_remote
  /\ call' = [c \in Calls |-> IdleCall]
  /\ ret' = None
  /\ fetched' = {}
  /\ nfetchers' = nfetchers + 1
  /\ UNCHANGED <<store, nops, lock, probe>>

CallStep(c) ==
  \/ \E a \in FetchArguments : Fetch(c, a[1], a[2])
  \/ \E b \in DirectLimits : CallFetchRemote(c, b)
  \/ \E b \in DirectLimits : CallFetchCached(c, b)
  \/ FetchLocal(c)
  \/ FetchRemote(c)
  \/ FetchCached(c)
  \/ NotModified(c)
  \/ Redirect(c)
  \/ Code(c)
  \/ TransportError(c)

FetcherStep ==
  \/ \E specifier \in Specifiers : GetCached(specifier)
  \/ \E file \in SyntheticFiles : InsertCached(file)
  \/ \E config \in FetcherConfigs : NewFetcher(config)

\* one call at a time
Next ==
  \/ \E c \in SeqCalls : CallStep(c)
  \/ FetcherStep

Spec == Init /\ [][Next]_vars

-----------------------------------------------------------------------------
(* Progress: fetch_local and fetch_cached run to their return without      *)
(* waiting, and fetch_remote waits for the transport alone, which answers   *)
(* every request or fails it                                                *)

\* the steps a call takes by itself
Runs(c) == FetchLocal(c) \/ FetchRemote(c) \/ FetchCached(c)

\* the transport resolves the request of the call
Answers(c) == NotModified(c) \/ Redirect(c) \/ Code(c) \/ TransportError(c)

\* calls of fetch, one after the other
NextLive ==
  \E c \in SeqCalls :
    \/ \E a \in FetchArguments : Fetch(c, a[1], a[2])
    \/ Runs(c)
    \/ Answers(c)

\* Runs(c) is enabled exactly at these positions, and every step of it
\* changes the call
RunsEnabled(c) == call[c].pc \in {"local", "remote", "cached"}

\* weak fairness of the call's own steps, with the enabling condition
\* written out, and of the transport's answer
SpecLive ==
  /\ Init
  /\ [][NextLive]_vars
  /\ \A c \in SeqCalls :
       /\ []<>(~RunsEnabled(c)) \/ []<><<Runs(c)>>_vars
       /\ WF_vars(Answers(c))

-----------------------------------------------------------------------------
(* Store read faults: HttpCache::get may fail with an error other than     *)
(* NotFound, whatever the store holds                                       *)

\* fetch_cached: http_cache.get fails with an error that is not NotFound,
\* and the error is returned to the caller of fetch_cached
FetchCachedReadError(c) ==
  /\ call[c].pc = "cached"
  /\ call[c].climit >= 0
  /\ Step(c, cached_return(Read(call[c], call[c].cur), Err("Io", call[c].cur),
                           cache_setting, store),
          store)

\* fetch_remote: the http_cache.get that reads the cached etag fails, at a
\* hop that goes on to the request; the read yields what it yields over a
\* store without entries
EtagReadError(c) ==
  \/ /\ call[c].pc = "remote"
     /\ remote_entry(call[c], cache_setting, store).pc = "await"
     /\ Step(c, remote_entry(call[c], cache_setting, << >>), store)
  \/ /\ call[c].pc = "cached"
     /\ cached_step(call[c], cache_setting, store).pc = "await"
     /\ Step(c, cached_step(call[c], cache_setting, << >>), store)

\* the calls that reach the store, with and without failing reads
NextIo ==
  \/ \E c \in SeqCalls : CallStep(c)
  \/ \E config \in FetcherConfigs : NewFetcher(config)
  \/ \E c \in SeqCalls : FetchCachedReadError(c)
  \/ \E c \in SeqCalls : EtagReadError(c)

SpecIo == Init /\ [][NextIo]_vars

-----------------------------------------------------------------------------
(* Concurrent calls: the calls of Calls run interleaved on one fetcher.    *)
(* FileCache::get and FileCache::insert take the mutex, act, and drop the  *)
(* guard when they return; a call waits while another holds the mutex      *)

\* the specifiers the concurrent calls fetch
ConcSpecifiers == {SpecB, SpecL}

\* the positions of a fetch between its lookup and its insert
IOPcs == {"local", "remote", "cached", "await"}

\* a fault of FileCache: the guard outlives the call that took it
drop_guard_leaked(holder) == holder

\* the MutexGuard goes out of scope at the end of FileCache::get and
\* FileCache::insert: the mutex is free again
drop_guard(holder) == None

\* a fetch that resolved a File has yet to insert it
Pending(r) ==
  IF r.pc = "done" /\ r.kind = "fetch" /\ r.result.ok
  THEN [r EXCEPT !.pc = "insert"]
  ELSE r

\* call c moves to record r, with the store left as st
ConcStep(c, r, st) ==
  /\ call' = [call EXCEPT ![c] = Pending(r)]
  /\ store' = st
  /\ UNCHANGED <<cache, cache_setting, allow_remote, ret, fetched, nops,
                 nfetchers, lock, probe>>

\* FileFetcher::fetch is called, once by each caller: the scheme is validated
\* and the permission checked, which ends the call or brings it to the lookup
ConcFetch(c, specifier, denied) ==
  /\ call[c].pc = "idle"
  /\ nops < MaxOps
  /\ call' = [call EXCEPT ![c] =
       IF /\ get_validated_scheme(specifier).ok
          /\ check_specifier(denied, specifier)
       THEN [StartCall("fetch", specifier, denied, FetchRedirectLimit, store)
               EXCEPT !.pc = "get"]
       ELSE fetch_entry(StartCall("fetch", specifier, denied, FetchRedirectLimit, store),
                        cache, allow_remote)]
  /\ nops' = nops + 1
  /\ UNCHANGED <<store, cache, cache_setting, allow_remote, ret, fetched,
                 nfetchers, lock, probe>>

\* self.0.lock() of FileCache::get or FileCache::insert, once the mutex is free
ConcLock(c) ==
  /\ call[c].pc \in {"get", "insert"}
  /\ lock = None
  /\ lock' = Some(c)
  /\ call' = [call EXCEPT ![c].pc = IF @ = "get" THEN "get_locked" ELSE "insert_locked"]
  /\ UNCHANGED <<store, cache, cache_setting, allow_remote, ret, fetched, nops,
                 nfetchers, probe>>

\* FileCache::get returns and fetch returns the File or dispatches
ConcCacheGet(c) ==
  /\ call[c].pc = "get_locked"
  /\ lock = Some(c)
  /\ call' = [call EXCEPT ![c] = fetch_entry(call[c], cache, allow_remote)]
  /\ lock' = drop_guard(lock)
  /\ UNCHANGED <<store, cache, cache_setting, allow_remote, ret, fetched, nops,
                 nfetchers, probe>>

\* FileCache::insert returns and fetch returns the File it resolved
ConcCacheInsert(c) ==
  /\ call[c].pc = "insert_locked"
  /\ lock = Some(c)
  /\ cache' = cache_insert(cache, call[c].specifier, call[c].result.file)
  /\ call' = [call EXCEPT ![c].pc = "done"]
  /\ fetched' = fetched \cup {call[c].specifier}
  /\ lock' = drop_guard(lock)
  /\ UNCHANGED <<store, cache_setting, allow_remote, ret, nops, nfetchers, probe>>

ConcFetchLocal(c) ==
  /\ call[c].pc = "local"
  /\ \E bytes \in {None} \cup {Some(b) : b \in LocalContents} :
       ConcStep(c, Finish([call[c] EXCEPT !.fsreads = @ + 1],
                          fetch_local(call[c].specifier, bytes)),
                store)

ConcFetchRemote(c) ==
  /\ call[c].pc = "remote"
  /\ ConcStep(c, remote_entry(call[c], cache_setting, store), store)

ConcFetchCached(c) ==
  /\ call[c].pc = "cached"
  /\ ConcStep(c, cached_step(call[c], cache_setting, store), store)

ConcNotModified(c) ==
  /\ call[c].pc = "await"
  /\ ConcStep(c, on_not_modified(call[c]), store)

ConcRedirect(c) ==
  /\ call[c].pc = "await"
  /\ \E location \in RedirectLocations(call[c].hop) :
       ConcStep(c, on_redirect(call[c], location),
                store_redirect(store, call[c], location))

ConcCode(c) ==
  /\ call[c].pc = "await"
  /\ \E response \in ContentResponses(call[c].hop) :
       ConcStep(c, on_code(call[c], response), store_code(store, call[c], response))

ConcTransportError(c) ==
  /\ call[c].pc = "await"
  /\ ConcStep(c, Finish(call[c], Err("Transport", call[c].hop)), store)

\* FileFetcher::get_cached by another caller: lock, get and unlock
ConcGetCached(specifier) ==
  /\ lock = None
  /\ ret' = cache_get(cache, specifier)
  /\ UNCHANGED <<store, cache, cache_setting, allow_remote, call, fetched, nops,
                 nfetchers, lock, probe>>

\* FileFetcher::insert_cached by another caller: lock, insert and unlock
ConcInsertCached(file) ==
  /\ nops < MaxOps
  /\ lock = None
  /\ ret' = cache_get(cache, file.specifier)
  /\ cache' = cache_insert(cache, file.specifier, file)
  /\ nops' = nops + 1
  /\ UNCHANGED <<store, cache_setting, allow_remote, call, fetched, nfetchers,
                 lock, probe>>

ConcCallStep(c) ==
  \/ \E specifier \in ConcSpecifiers : ConcFetch(c, specifier, {})
  \/ ConcLock(c)
  \/ ConcCacheGet(c)
  \/ ConcCacheInsert(c)
  \/ ConcFetchLocal(c)
  \/ ConcFetchRemote(c)
  \/ ConcFetchCached(c)
  \/ ConcNotModified(c)
  \/ ConcRedirect(c)
  \/ ConcCode(c)
  \/ ConcTransportError(c)

\* a fetcher with the default cache setting and remote access
InitConc == Init /\ cache_setting = Use /\ allow_remote

NextConc ==
  \/ \E c \in Calls : ConcCallStep(c)
  \/ \E specifier \in ConcSpecifiers : ConcGetCached(specifier)
  \/ \E file \in SyntheticFiles : ConcInsertCached(file)

SpecConc == InitConc /\ [][NextConc]_vars

-----------------------------------------------------------------------------
(* The helper functions, applied to inputs *)

\* the longest text strip_shebang is applied to
MaxTextLen == 5

\* '#', '!', newline and 'x'
TextAlphabet == {35, 33, 10, 120}

Texts == UNION {[1..n -> TextAlphabet] : n \in 0..MaxTextLen}

\* the --reload lists should_use is applied to
ReloadLists ==
  {{}, {"https://h/std"}, {"https://h/std/"}, {"https://h/a?q=1"},
   {"https://h", "file:///d"}, {"https://h/x/y", "https://h/std/mod.ts"}}

ShouldUseSettings == {Only, ReloadAll, Use} \cup {ReloadSome(l) : l \in ReloadLists}

\* the specifiers should_use is applied to
ShouldUseSpecifiers ==
  {"https://h/std/mod.ts", "https://h/std", "https://h/std/", "https://h/other.ts",
   "https://h/std/mod.ts#frag", "https://h/std/mod.ts?q=1", "https://h/a?q=1#f",
   "https://h/a?q=2", "https://h/stdx/mod.ts", "https://h/x/y/z/w.ts",
   "https://g/std/mod.ts", "file:///d/l.ts", "file:///dd/l.ts"}

\* the specifiers map_content_type is applied to
MediaSpecifiers ==
  {"https://h/mod.d.ts", "https://h/mod.ts", "https://h/mod.jsx", "https://h/mod.tsx",
   "https://h/mod.js", "https://h/mod", "https://h/a.d/mod.ts", "https://h/mod.D.ts",
   "https://h/mod.ts?x=y.jsx", "https://h/mod.d.ts#f.tsx", "file:///d/mod.d.ts",
   "file:///d/mod.tsx", "https://h/mod.json", "https://h/mod.wasm",
   "https://h/.tsx", "https://h/x/.d.ts", "https://h/mod.mjs", "file:///d/mod.cjs"}

\* the content-type headers map_content_type is applied to
ContentTypes ==
  TypeScriptMimes \cup JavaScriptMimes \cup
    {"Application/TypeScript; charset=utf-8", " text/javascript ;charset=UTF-16LE",
     "application/json", "text/json", "application/wasm", "text/plain",
     "application/octet-stream", "text/html", "text/typescript;q=1; charset=x",
     "text/json; charset=utf-8", "Text/JSON ;x=1;  charset=a ; charset=b",
     "application/wasm; Charset=x", "foo/bar", "application/json;charset=",
     "text/plain ; charset=utf-16le"}

ApplyStripShebang(text) ==
  /\ probe.fn = NoProbe.fn
  /\ probe' = [fn |-> "strip_shebang", args |-> <<text>>,
               result |-> strip_shebang(text)]
  /\ UNCHANGED <<store, cache, cache_setting, allow_remote, call, ret, fetched,
                 lock, nops, nfetchers>>

ApplyShouldUse(setting, specifier) ==
  /\ probe.fn = NoProbe.fn
  /\ probe' = [fn |-> "should_use", args |-> <<setting, specifier>>,
               result |-> should_use(setting, specifier)]
  /\ UNCHANGED <<store, cache, cache_setting, allow_remote, call, ret, fetched,
                 lock, nops, nfetchers>>

ApplyMapContentType(specifier, maybe_content_type) ==
  /\ probe.fn = NoProbe.fn
  /\ probe' = [fn |-> "map_content_type", args |-> <<specifier, maybe_content_type>>,
               result |-> map_content_type(specifier, maybe_content_type)]
  /\ UNCHANGED <<store, cache, cache_setting, allow_remote, call, ret, fetched,
                 lock, nops, nfetchers>>

\* the bytes the decoding is applied to: UTF-16LE, UTF-16BE and UTF-8 with
\* a byte-order mark, plain ASCII with a shebang line, a lone byte that is
\* not UTF-8, a UTF-16LE mark with an odd number of bytes after it, nothing
DecodeInputs ==
  {<<255, 254, 120, 0>>, <<254, 255, 0, 120>>, <<239, 187, 191, 120>>,
   <<35, 33, 10, 120>>, <<255>>, <<255, 254, 120>>, << >>}

\* the header maps build_remote_file is applied to: none, a content type
\* without charset, and content types that declare utf-8 and utf-16le
DecodeHeaders ==
  {NoHeaders, TypedHeaders,
   [k \in {"content-type"} |-> "application/typescript"],
   [k \in {"content-type"} |-> "text/plain; charset=utf-16le"]}

ApplyBuildRemoteFile(specifier, bytes, headers) ==
  /\ probe.fn = NoProbe.fn
  /\ probe' = [fn |-> "build_remote_file", args |-> <<specifier, bytes, headers>>,
               result |-> build_remote_file(specifier, bytes, headers)]
  /\ UNCHANGED <<store, cache, cache_setting, allow_remote, call, ret, fetched,
                 lock, nops, nfetchers>>

ApplyFetchLocal(specifier, maybe_bytes) ==
  /\ probe.fn = NoProbe.fn
  /\ probe' = [fn |-> "fetch_local", args |-> <<specifier, maybe_bytes>>,
               result |-> fetch_local(specifier, maybe_bytes)]
  /\ UNCHANGED <<store, cache, cache_setting, allow_remote, call, ret, fetched,
                 lock, nops, nfetchers>>

\* a fetcher that is left alone while one helper is applied to one input
InitFn == Init /\ cache_setting = Use /\ allow_remote

NextFn ==
  \/ \E text \in Texts : ApplyStripShebang(text)
  \/ \E setting \in ShouldUseSettings : \E specifier \in ShouldUseSpecifiers :
       ApplyShouldUse(setting, specifier)
  \/ \E specifier \in MediaSpecifiers :
       \E ct \in {None} \cup {Some(h) : h \in ContentTypes} :
         ApplyMapContentType(specifier, ct)
  \/ \E specifier \in {SpecC, "https://h/mod.d.ts"} :
       \E bytes \in DecodeInputs : \E headers \in DecodeHeaders :
         ApplyBuildRemoteFile(specifier, bytes, headers)
  \/ \E specifier \in {SpecL, "file:///d/mod.d.ts"} :
       \E maybe_bytes \in {None} \cup {Some(b) : b \in DecodeInputs} :
         ApplyFetchLocal(specifier, maybe_bytes)

SpecFn == InitFn /\ [][NextFn]_vars

-----------------------------------------------------------------------------
(* Properties *)

Last(seq) == seq[Len(seq)]

\* the call has read no file, and neither read nor written the store, nor
\* sent a request
NoIO(r) ==
  /\ r.reads = << >>
  /\ r.writes = << >>
  /\ r.requested = << >>
  /\ r.fsreads = 0

\* C1: once a fetch of a specifier has succeeded on a fetcher, a later fetch
\* of it whose scheme is supported and whose permission check passes returns
\* the File the in-memory cache holds for it, and performs no I/O: nothing
\* is read from disk or from the store, nothing requested, nothing written.
C1_FetchedIsServedFromMemory ==
  [][\A c \in Calls : \A a \in {<<call'[c].specifier, call'[c].denied>>} :
       (/\ nops' = nops + 1
        /\ Fetch(c, a[1], a[2])
        /\ a[1] \in fetched
        /\ get_validated_scheme(a[1]).ok
        /\ check_specifier(a[2], a[1]))
       => /\ call'[c].pc = "done"
          /\ a[1] \in DOMAIN cache
          /\ call'[c].result = Ok(cache[a[1]])
          /\ NoIO(call'[c])
          /\ store' = store
          /\ cache' = cache]_vars

\* a second fetch of SpecA was served without I/O
C1_Witness ==
  \E c \in Calls :
    /\ call[c].pc = "done" /\ call[c].kind = "fetch"
    /\ call[c].specifier = SpecA /\ SpecA \in fetched
    /\ call[c].result.ok /\ NoIO(call[c])
    /\ call[c].result.file = cache[SpecA]

\* C2: fetch validates the scheme and then checks the permission before it
\* consults the in-memory cache: an unsupported scheme fails with
\* UnsupportedScheme and a denied specifier with PermissionDenied, whether
\* or not the cache holds the specifier, and nothing is read or requested.
C2_ChecksBeforeLookup ==
  \A c \in Calls :
    (call[c].kind = "fetch" /\ call[c].pc # "idle") =>
      /\ ~get_validated_scheme(call[c].specifier).ok =>
           /\ call[c].pc = "done"
           /\ call[c].result = Err("UnsupportedScheme", call[c].specifier)
           /\ call[c].checked = {}
           /\ NoIO(call[c])
      /\ (/\ get_validated_scheme(call[c].specifier).ok
          /\ ~check_specifier(call[c].denied, call[c].specifier)) =>
           /\ call[c].pc = "done"
           /\ call[c].result = Err("PermissionDenied", call[c].specifier)
           /\ NoIO(call[c])

\* a fetch was denied a specifier the in-memory cache holds
C2_Witness ==
  \E c \in Calls :
    /\ call[c].pc = "done" /\ call[c].kind = "fetch"
    /\ call[c].specifier \in DOMAIN cache
    /\ call[c].specifier \in call[c].denied
    /\ call[c].result = Err("PermissionDenied", call[c].specifier)

\* C3: a fetch that ends in an error leaves the in-memory cache exactly as
\* it was before the call: no step of a fetch other than its successful
\* return changes the cache.
C3_FailedFetchKeepsCache ==
  [][\A c \in Calls :
       (/\ call'[c] # call[c]
        /\ nfetchers' = nfetchers
        /\ call'[c].kind = "fetch"
        /\ ~(call'[c].pc = "done" /\ call'[c].result.ok))
       => cache' = cache]_vars

\* a fetch failed after it had written the store, with Files in the cache
C3_Witness ==
  \E c \in Calls :
    /\ call[c].pc = "done" /\ call[c].kind = "fetch"
    /\ ~call[c].result.ok
    /\ call[c].writes # << >>
    /\ cache # << >>
    /\ call[c].specifier \notin DOMAIN cache

\* C4: when a fetch of A is redirected and ends with a File at B # A, the
\* File is stored under A and its specifier field is B; no other entry of
\* the cache changes, so the fetch creates no entry keyed by B.
C4_RedirectedFileIsKeyedByRequest ==
  [][\A c \in Calls :
       (/\ call'[c] # call[c]
        /\ nfetchers' = nfetchers
        /\ call'[c].kind = "fetch"
        /\ call'[c].pc = "done" /\ call'[c].result.ok
        /\ Len(call'[c].path) > 1
        /\ Last(call'[c].path) # call'[c].specifier)
       => /\ call'[c].result.file.specifier = Last(call'[c].path)
          /\ DOMAIN cache' = DOMAIN cache \cup {call'[c].specifier}
          /\ cache'[call'[c].specifier] = call'[c].result.file
          /\ \A k \in DOMAIN cache \ {call'[c].specifier} : cache'[k] = cache[k]]_vars

\* a fetch of SpecA ended at another specifier, which has no entry
C4_Witness ==
  \E c \in Calls :
    /\ call[c].pc = "done" /\ call[c].kind = "fetch"
    /\ call[c].result.ok
    /\ call[c].specifier = SpecA
    /\ call[c].result.file.specifier # SpecA
    /\ SpecA \in DOMAIN cache
    /\ cache[SpecA] = call[c].result.file
    /\ call[c].result.file.specifier \notin DOMAIN cache

\* seq has no element twice
Distinct(seq) == \A i, j \in 1..Len(seq) : i # j => seq[i] # seq[j]

\* the location a record of the store redirects to, resolved against url
stored_target(st, url) ==
  resolve_import(Unwrap(HeaderGet(st[url].headers, "location")), url)

\* url has a record in st that is a redirect record
stored_redirect(st, url) ==
  url \in DOMAIN st /\ IsSome(HeaderGet(st[url].headers, "location"))

\* url has a record in st that is a content record
stored_content(st, url) ==
  url \in DOMAIN st /\ ~IsSome(HeaderGet(st[url].headers, "location"))

\* the specifiers of the chain st holds from url, following at most n
\* redirect records
RECURSIVE persisted_chain(_, _, _)
persisted_chain(st, url, n) ==
  IF n = 0 \/ ~stored_redirect(st, url)
  THEN <<url>>
  ELSE <<url>> \o persisted_chain(st, stored_target(st, url), n - 1)

\* a chain without a repeated specifier has fewer hops than there are remote
\* specifiers: followed this far, a chain that ends in no content record is
\* dangling or cyclic
ChainFuel == Cardinality(RemoteSpecifiers)

\* the chain st holds from url
chain_of(st, url) == persisted_chain(st, url, ChainFuel)

\* st holds a complete chain from url: redirect records ending in a content
\* record
complete_chain(st, url) == stored_content(st, Last(chain_of(st, url)))

\* the File built from the content record st holds for url
stored_file(st, url) == build_remote_file(url, st[url].bytes, st[url].headers)

C6_BudgetIsExact ==
  \A c \in Calls :
    call[c].pc = "done" =>
      /\ (call[c].kind \in {"fetch", "fetch_remote"} /\ ~call[c].notmodified) =>
           /\ call[c].result.ok => Depth(call[c]) <= call[c].budget
           /\ call[c].result.err = "TooManyRedirects" =>
                Depth(call[c]) = call[c].budget + 1
      /\ (/\ call[c].kind = "fetch_cached"
          /\ complete_chain(store, call[c].specifier)
          /\ stored_file(store, Last(chain_of(store, call[c].specifier))).ok) =>
           LET k == Len(chain_of(store, call[c].specifier)) - 1
           IN  /\ (call[c].result.ok /\ call[c].result.present) <=> call[c].budget >= k
               /\ call[c].budget < k => call[c].result = Err("TooManyRedirects", "")
               /\ call[c].budget >= k =>
                    call[c].result =
                      stored_file(store, Last(chain_of(store, call[c].specifier)))

\* fetch_cached was given exactly the budget the persisted chain of two
\* hops needs, and returned the File
C6_Witness ==
  \E c \in Calls :
    /\ call[c].pc = "done" /\ call[c].kind = "fetch_cached"
    /\ call[c].budget = 2
    /\ chain_of(store, SpecA) = <<SpecA, SpecB, SpecC>>
    /\ call[c].result.ok /\ call[c].result.present
    /\ call[c].result.file.specifier = SpecC

\* the call is about to fail, or has failed, for its redirect budget
out_of_budget(r) ==
  \/ r.pc = "remote" /\ r.limit < 0
  \/ r.pc = "cached" /\ r.climit < 0
  \/ r.pc = "done" /\ r.result = Err("TooManyRedirects", "")

\* C7: within one fetch the redirect hops followed, by network redirects
\* and by stored redirect records together, never exceed the budget of 10:
\* a File is returned after at most 10 hops, and a resolution that reaches
\* an 11th hop ends there with TooManyRedirects.
C7_OneBudgetPerFetch ==
  \A c \in Calls :
    call[c].kind = "fetch" =>
      /\ Depth(call[c]) <= FetchRedirectLimit + 1
      /\ Depth(call[c]) = FetchRedirectLimit + 1 => out_of_budget(call[c])

\* C8: during a fetch no specifier is read from the store, requested from
\* the network or read from disk unless it passes the permission check of
\* this call, redirect targets that fetch_cached reaches through stored
\* location headers included; and the specifier of a File the call resolved
\* passes it.  (A specifier the caller's permissions deny cannot have
\* passed the check, whenever it was evaluated.)
C8_EveryHopIsPermitted ==
  \A c \in Calls :
    call[c].kind = "fetch" =>
      /\ \A i \in 1..Len(call[c].reads) :
           check_specifier(call[c].denied, call[c].reads[i])
      /\ \A i \in 1..Len(call[c].requested) :
           check_specifier(call[c].denied, call[c].requested[i])
      /\ call[c].fsreads > 0 => check_specifier(call[c].denied, call[c].specifier)
      /\ (call[c].pc = "done" /\ call[c].result.ok /\ ~NoIO(call[c])) =>
           check_specifier(call[c].denied, call[c].result.file.specifier)

\* C9: with CacheSetting::Only no call requests anything from the network
\* or writes the store; a fetch that reaches the store fails with NotFound
\* naming the specifier when the stored chain ends at a missing record, and
\* returns the File of the stored content record when the chain is
\* complete.
C9_CacheOnly ==
  cache_setting = Only =>
    \A c \in Calls :
      call[c].pc # "idle" =>
        /\ call[c].requested = << >>
        /\ call[c].writes = << >>
        /\ store = call[c].store0
        /\ (call[c].pc = "done" /\ call[c].kind = "fetch" /\ call[c].reads # << >>) =>
             LET last == Last(chain_of(store, call[c].specifier))
             IN  /\ last \notin DOMAIN store =>
                      call[c].result = Err("NotFound", call[c].specifier)
                 /\ stored_content(store, last) =>
                      call[c].result = stored_file(store, last)

\* a cache-only fetcher constructed over a populated store served a fetch
\* of SpecA from the stored chain
C9_Witness ==
  \E c \in Calls :
    /\ cache_setting = Only /\ nfetchers > 0
    /\ call[c].pc = "done" /\ call[c].kind = "fetch" /\ call[c].result.ok
    /\ call[c].specifier = SpecA
    /\ Len(call[c].reads) > 1
    /\ call[c].result.file.specifier # SpecA

\* C10: with CacheSetting::Use, a fetch started while the store holds the
\* complete chain of its specifier requests nothing from the network and
\* writes no record; when it is not served from memory it returns the File
\* of the chain's content record, which is the File the populating fetch
\* built from the same response.
C10_UseServesPersistedChain ==
  cache_setting = Use =>
    \A c \in Calls :
      (/\ call[c].kind = "fetch"
       /\ stored_redirect(call[c].store0, call[c].specifier)
            \/ stored_content(call[c].store0, call[c].specifier)
       /\ complete_chain(call[c].store0, call[c].specifier)) =>
        /\ call[c].requested = << >>
        /\ call[c].writes = << >>
        /\ store = call[c].store0
        /\ (call[c].pc = "done" /\ call[c].reads # << >>) =>
             call[c].result =
               stored_file(store, Last(chain_of(store, call[c].specifier)))

\* a fetcher constructed over a populated store served a fetch of SpecA
\* from the stored chain through SpecB to SpecC
C10_Witness ==
  \E c \in Calls :
    /\ cache_setting = Use /\ nfetchers > 0
    /\ call[c].pc = "done" /\ call[c].kind = "fetch" /\ call[c].result.ok
    /\ call[c].path = <<SpecA, SpecB, SpecC>>
    /\ call[c].reads = call[c].path
    /\ call[c].requested = << >>

\* the elements of seq
Range(seq) == {seq[i] : i \in 1..Len(seq)}

\* C11: with CacheSetting::ReloadAll a fetch of an http or https specifier
\* that is not served from the in-memory cache never returns a File built
\* from the store's record of a specifier that was not requested from the
\* network during that fetch: the specifier of the File it resolved is one
\* of those it requested.
C11_ReloadAllForcesNetwork ==
  cache_setting = ReloadAll =>
    \A c \in Calls :
      (/\ call[c].kind = "fetch"
       /\ call[c].pc = "done" /\ call[c].result.ok
       /\ call[c].specifier \in RemoteSpecifiers
       /\ ~NoIO(call[c])) =>
        call[c].result.file.specifier \in Range(call[c].requested)

\* whether text has a character other than '/'
HasSegment(text) == \E i \in 1..Len(text) : Char(text, i) # "/"

\* the ancestors of a URL string: the string itself and every prefix that
\* ends where a path segment ends and is followed by at least one more segment
Ancestors(u) ==
  {u} \cup {UpTo(u, n) : n \in {m \in 1..(Len(u) - 1) :
                                  /\ Char(u, m) # "/"
                                  /\ Char(u, m + 1) = "/"
                                  /\ HasSegment(From(u, m + 1))}}

\* C12: ReloadSome(list).should_use(s) is false exactly when s without its
\* fragment is a list entry, or s without fragment and query is a list
\* entry, or an ancestor of that, reached by removing last path segments, is
\* a list entry; Use and Only answer true for every specifier and ReloadAll
\* answers false.
C12_ShouldUseMatchesAtSegments ==
  probe.fn = "should_use" =>
    LET setting == probe.args[1]
        s == probe.args[2]
    IN  probe.result =
          CASE setting.kind \in {"Use", "Only"} -> TRUE
            [] setting.kind = "ReloadAll" -> FALSE
            [] setting.kind = "ReloadSome" ->
                 ~(\/ without_fragment(s) \in setting.list
                   \/ Ancestors(without_query(without_fragment(s)))
                        \cap setting.list # {})

\* should_use answered false for a module below a listed directory, and
\* would answer true for a sibling of the directory with the same prefix
C12_Witness ==
  /\ probe.fn = "should_use"
  /\ probe.args = <<ReloadSome({"https://h/std"}), "https://h/std/mod.ts">>
  /\ probe.result = FALSE
  /\ should_use(ReloadSome({"https://h/std"}), "https://h/stdx/mod.ts")
  /\ should_use(ReloadSome({"https://h/std"}), "https://h/other.ts")

\* C13: with remote fetching disabled, a permitted fetch of an http or
\* https specifier that the in-memory cache does not hold fails with NoRemote
\* naming the specifier; it reads neither the store (whether or not it holds
\* a record of the specifier) nor a file and requests nothing.  A fetch of a
\* file specifier is not refused: it goes on to read the file.
C13_NoRemote ==
  [][\A c \in Calls : \A a \in {<<call'[c].specifier, call'[c].denied>>} :
       (/\ nops' = nops + 1
        /\ ~allow_remote
        /\ Fetch(c, a[1], a[2])
        /\ a[1] \notin DOMAIN cache
        /\ check_specifier(a[2], a[1]))
       => /\ a[1] \in RemoteSpecifiers =>
               /\ call'[c].pc = "done"
               /\ call'[c].result = Err("NoRemote", a[1])
               /\ NoIO(call'[c])
               /\ store' = store
               /\ cache' = cache
          /\ a[1] = SpecL =>
               /\ call'[c].pc = "local"
               /\ call'[c].checked = {SpecL}
               /\ NoIO(call'[c])]_vars

\* a fetcher with remote fetching disabled, constructed over a store that
\* holds a record of the specifier, refused to fetch it
C13_Witness ==
  \E c \in Calls :
    /\ ~allow_remote
    /\ call[c].pc = "done" /\ call[c].kind = "fetch"
    /\ call[c].specifier \in DOMAIN store
    /\ call[c].specifier \in RemoteSpecifiers
    /\ call[c].result = Err("NoRemote", call[c].specifier)
    /\ NoIO(call[c])

\* C14: a fetch of a specifier whose scheme is none of file, http and https
\* has ended with UnsupportedScheme naming it, with no permission checked,
\* nothing read from the in-memory cache's File, the store or a file, and
\* nothing requested, also when the permissions deny the specifier and when
\* the cache holds it; for a specifier with one of the three schemes the
\* validation yields that scheme and the fetch never ends with that error.
C14_SchemeValidatedFirst ==
  \A c \in Calls :
    (call[c].kind = "fetch" /\ call[c].pc # "idle") =>
      IF url_scheme(call[c].specifier) \in {"file", "http", "https"}
      THEN /\ get_validated_scheme(call[c].specifier)
                = [ok |-> TRUE, scheme |-> url_scheme(call[c].specifier)]
           /\ call[c].pc = "done" => call[c].result.err # "UnsupportedScheme"
           /\ call[c].specifier \in call[c].checked
      ELSE /\ ~get_validated_scheme(call[c].specifier).ok
           /\ call[c].pc = "done"
           /\ ~call[c].result.ok
           /\ call[c].result.err = "UnsupportedScheme"
           /\ call[c].result.about = call[c].specifier
           /\ call[c].checked = {}
           /\ NoIO(call[c])

\* a fetch of the ftp specifier failed on its scheme although the
\* permissions deny the specifier and the in-memory cache holds a File for it
C14_Witness ==
  \E c \in Calls :
    /\ call[c].pc = "done" /\ call[c].kind = "fetch"
    /\ call[c].specifier = SpecU
    /\ SpecU \in DOMAIN cache
    /\ SpecU \in call[c].denied
    /\ call[c].result.err = "UnsupportedScheme"
    /\ call[c].checked = {}

\* C17: the in-memory cache of a fetcher is empty when the fetcher is
\* constructed, and no step of a fetch, get_cached or insert_cached, in
\* whatever interleaving, removes a key of it; get_cached(s) returns a File
\* exactly when s is a key.  So once get_cached(s) has returned a File it
\* returns one after every later sequence of calls.
C17_CacheKeysOnlyGrow ==
  /\ cache = << >>
  /\ [][/\ DOMAIN cache \subseteq DOMAIN cache'
        /\ \A s \in ConcSpecifiers :
             ConcGetCached(s) => (IsSome(ret') <=> s \in DOMAIN cache)]_vars

\* get_cached returned the File a fetch of SpecB had inserted, and SpecB is
\* still a key, with that File, after a fetch of SpecL added a second key
C17_Witness ==
  /\ IsSome(ret)
  /\ {SpecB, SpecL} \subseteq DOMAIN cache
  /\ ret[1] = cache[SpecB]
  /\ ret[1].local # "/mem"
  /\ \E c \in Calls :
       /\ call[c].pc = "done" /\ call[c].kind = "fetch"
       /\ call[c].specifier = SpecL /\ call[c].fsreads = 1

\* C18: insert_cached(file) leaves file under the key file.specifier, every
\* other entry as it was, and returns the File that key held before, or
\* none; get_cached(s) returns the File the cache holds for s and changes
\* neither the cache nor the store nor any call; a fetch of a key of the
\* cache that passes scheme validation and the permission check returns the
\* File the cache holds, without I/O.  Together: right after
\* insert_cached(file), get_cached and a permitted fetch of file.specifier
\* return file.
C18_InsertThenGet ==
  [][/\ \A file \in SyntheticFiles :
          InsertCached(file) =>
            /\ ret' = IF file.specifier \in DOMAIN cache
                      THEN <<cache[file.specifier]>>
                      ELSE << >>
            /\ DOMAIN cache' = DOMAIN cache \cup {file.specifier}
            /\ cache'[file.specifier] = file
            /\ \A k \in DOMAIN cache \ {file.specifier} : cache'[k] = cache[k]
            /\ store' = store /\ call' = call
     /\ \A s \in Specifiers :
          GetCached(s) =>
            /\ ret' = IF s \in DOMAIN cache THEN <<cache[s]>> ELSE << >>
            /\ cache' = cache /\ store' = store /\ call' = call
     /\ \A c \in Calls : \A a \in {<<call'[c].specifier, call'[c].denied>>} :
          (/\ nops' = nops + 1
           /\ a[1] \in DOMAIN cache
           /\ Fetch(c, a[1], a[2])
           /\ url_scheme(a[1]) \in SUPPORTED_SCHEMES
           /\ a[1] \notin a[2])
          => /\ call'[c].pc = "done"
             /\ call'[c].result = Ok(cache[a[1]])
             /\ NoIO(call'[c])
             /\ cache' = cache /\ store' = store]_vars

\* after insert_cached of a File for SpecB on a fresh fetcher, a fetch of
\* SpecB returned that File and read and requested nothing
C18_Witness ==
  \E c \in Calls : \E file \in SyntheticFiles :
    /\ file.specifier = SpecB
    /\ nops = 2 /\ nfetchers = 0
    /\ call[c].pc = "done" /\ call[c].kind = "fetch"
    /\ call[c].specifier = SpecB
    /\ call[c].result = Ok(file)
    /\ cache[SpecB] = file
    /\ NoIO(call[c])

\* whether text starts with "#!"
HasShebang(text) == Len(text) >= 2 /\ text[1] = 35 /\ text[2] = 33

\* the positions of the newlines of text
Newlines(text) == {i \in 1..Len(text) : text[i] = 10}

\* the least element of a non-empty set of numbers
Min(S) == CHOOSE i \in S : \A j \in S : i <= j

\* C19, as stated: strip_shebang of a text that starts with "#!" removes
\* every character up to and including the first newline, so that the
\* result starts with the character after it; a text without newline becomes
\* empty, and a text that does not start with "#!" is returned unchanged.
C19_ShebangLineAndNewlineRemoved ==
  probe.fn = "strip_shebang" =>
    LET text == probe.args[1]
    IN  probe.result =
          IF ~HasShebang(text) THEN text
          ELSE IF Newlines(text) = {} THEN << >>
          ELSE SubSeq(text, Min(Newlines(text)) + 1, Len(text))

\* C19, amended: strip_shebang of a text that starts with "#!" removes every
\* character before the first newline and keeps the newline, so that the
\* result starts with that newline; a text without newline becomes empty,
\* and a text that does not start with "#!" is returned unchanged.
C19_ShebangLineRemovedNewlineKept ==
  probe.fn = "strip_shebang" =>
    LET text == probe.args[1]
    IN  probe.result =
          IF ~HasShebang(text) THEN text
          ELSE IF Newlines(text) = {} THEN << >>
          ELSE SubSeq(text, Min(Newlines(text)), Len(text))

\* strip_shebang was applied to "#!\nx" and returned "\nx"
C19_Witness ==
  /\ probe.fn = "strip_shebang"
  /\ probe.args = << <<35, 33, 10, 120>> >>
  /\ probe.result = <<10, 120>>

\* the content types of ContentTypes whose type is in the TypeScript family
TypeScriptHeaders ==
  TypeScriptMimes \cup
    {"Application/TypeScript; charset=utf-8", "text/typescript;q=1; charset=x"}

\* the content types of ContentTypes whose type is in the JavaScript family
JavaScriptHeaders == JavaScriptMimes \cup {" text/javascript ;charset=UTF-16LE"}

\* the last segment of the path of a URL
LastSegment(u) ==
  LET p == without_query(without_fragment(u))
  IN  From(p, LastIndex(p, "/") + 1)

\* the extension of a file name: what follows its last '.', unless that is
\* the first character of the name; "" when there is none
ExtensionOf(name) ==
  IF LastIndex(name, ".") <= 1 THEN "" ELSE From(name, LastIndex(name, ".") + 1)

\* the media kind of a path served with a content type of a family
RefinedKind(u, default) ==
  CASE ExtensionOf(LastSegment(u)) = "jsx" -> "JSX"
    [] ExtensionOf(LastSegment(u)) = "tsx" -> "TSX"
    [] /\ ExtensionOf(LastSegment(u)) = "ts"
       /\ default = "TypeScript"
       /\ EndsWith(LastSegment(u), ".d.ts") -> "Dts"
    [] OTHER -> default

\* C20: for a content type of the TypeScript or JavaScript family the media
\* kind map_content_type yields is the family's default refined by the
\* extension of the path: jsx gives JSX and tsx gives TSX in both families,
\* ts gives Dts only in the TypeScript family and only when the stem ends
\* with ".d", and any other extension, or none, keeps the default.
C20_JsLikeExtensionRefinesDefault ==
  (probe.fn = "map_content_type" /\ probe.args[2] # << >>) =>
    LET u == probe.args[1]
        header == probe.args[2][1]
    IN  /\ header \in TypeScriptHeaders => probe.result[1] = RefinedKind(u, "TypeScript")
        /\ header \in JavaScriptHeaders => probe.result[1] = RefinedKind(u, "JavaScript")

\* 'mod.d.ts' served as application/javascript was mapped to JavaScript,
\* where application/x-typescript maps it to Dts
C20_Witness ==
  /\ probe.fn = "map_content_type"
  /\ probe.args = <<"https://h/mod.d.ts", <<"application/javascript">> >>
  /\ probe.result[1] = "JavaScript"
  /\ map_content_type("https://h/mod.d.ts", <<"application/x-typescript">>)[1] = "Dts"

resolved(c) == call[c].result.file

\* C16: concurrent fetches of a specifier are not de-duplicated.  Each call
\* that missed the cache keeps the File it resolved from its lookup miss to
\* its return, whatever the other call inserts meanwhile; an entry of the
\* in-memory cache changes only when a call inserts, and is then the File
\* of that call: the entry left is the File of the call whose insert ran
\* last.
C16_LastInsertWins ==
  [][/\ \A c \in Calls :
          /\ call[c].pc \in {"insert", "insert_locked"} =>
               /\ call'[c].pc \in {"insert", "insert_locked", "done"}
               /\ call'[c].result = call[c].result
               /\ call'[c].result.ok
          /\ ConcCacheInsert(c) =>
               /\ cache'[call[c].specifier] = resolved(c)
               /\ call'[c].result = Ok(resolved(c))
               /\ \A k \in DOMAIN cache \ {call[c].specifier} : cache'[k] = cache[k]
     /\ cache' # cache =>
          \/ \E c \in Calls : ConcCacheInsert(c)
          \/ \E file \in SyntheticFiles : ConcInsertCached(file)]_vars

\* two fetches of SpecL both missed the cache and both read the file; they
\* returned different Files, and the cache holds the File of one of them
C16_Witness ==
  /\ \A c \in Calls :
       /\ call[c].pc = "done" /\ call[c].kind = "fetch"
       /\ call[c].specifier = SpecL
       /\ call[c].result.ok
       /\ call[c].fsreads = 1
  /\ call[1].result # call[2].result
  /\ cache[SpecL] = call[1].result.file

\* the positions of the ';' of a content type
Semicolons(header) == {i \in 1..Len(header) : Char(header, i) = ";"}

\* the segment of a content type that follows the ';' at position i
SegmentAfter(header, i) ==
  SubSeq(header, i + 1,
         Min({j \in Semicolons(header) \cup {Len(header) + 1} : j > i}) - 1)

\* the ';' whose segment, trimmed, starts with "charset="
CharsetSegments(header) ==
  {i \in Semicolons(header) : StartsWith(Trim(SegmentAfter(header, i)), "charset=")}

\* the type of a content type: its first token, trimmed and lowercased
MimeOf(header) ==
  ToLowercase(Trim(IF Semicolons(header) = {} THEN header
                   ELSE SubSeq(header, 1, Min(Semicolons(header)) - 1)))

\* C21: map_content_type with a content type takes the first ';'-separated
\* token, trimmed and lowercased, as the type; the charset it yields is what
\* follows "charset=" in the first later segment that starts with it once
\* trimmed, and none when there is no such segment; application/json and
\* text/json give Json and application/wasm gives Wasm whatever the path.
C21_TypeAndCharsetOfHeader ==
  (probe.fn = "map_content_type" /\ probe.args[2] # << >>) =>
    LET header == probe.args[2][1]
    IN  /\ MimeOf(header) \in {"application/json", "text/json"}
             => probe.result[1] = "Json"
        /\ MimeOf(header) = "application/wasm" => probe.result[1] = "Wasm"
        /\ probe.result[2] =
             IF CharsetSegments(header) = {} THEN << >>
             ELSE <<SubSeq(Trim(SegmentAfter(header, Min(CharsetSegments(header)))),
                           9, Len(Trim(SegmentAfter(header, Min(CharsetSegments(header))))))>>

\* 'text/json; charset=utf-8' for a TypeScript path was mapped to Json with
\* the charset utf-8, and of two charset segments the first one is taken
C21_Witness ==
  /\ probe.fn = "map_content_type"
  /\ probe.args = <<"https://h/mod.ts", <<"text/json; charset=utf-8">> >>
  /\ probe.result = <<"Json", <<"utf-8">> >>
  /\ map_content_type("https://h/mod.wasm",
                      <<"Text/JSON ;x=1;  charset=a ; charset=b">>) = <<"Json", <<"a">> >>

\* the content types of the fixed table of map_content_type
TableMimes ==
  TypeScriptMimes \cup JavaScriptMimes \cup
    {"application/json", "text/json", "application/wasm", "text/plain",
     "application/octet-stream"}

\* the media kind of a path, from the extension of its last segment
PathKind(u) ==
  CASE ExtensionOf(LastSegment(u)) = "ts" ->
         IF EndsWith(LastSegment(u), ".d.ts") THEN "Dts" ELSE "TypeScript"
    [] ExtensionOf(LastSegment(u)) = "tsx" -> "TSX"
    [] ExtensionOf(LastSegment(u)) = "jsx" -> "JSX"
    [] ExtensionOf(LastSegment(u)) \in {"js", "mjs", "cjs"} -> "JavaScript"
    [] ExtensionOf(LastSegment(u)) = "json" -> "Json"
    [] ExtensionOf(LastSegment(u)) = "wasm" -> "Wasm"
    [] OTHER -> "Unknown"

\* C28: map_content_type without a content type, or with text/plain or
\* application/octet-stream, yields the kind of the path (and without a
\* content type no charset); with a content type outside its table it
\* yields Unknown whatever the extension of the path.
C28_PathKindOrUnknown ==
  probe.fn = "map_content_type" =>
    LET u == probe.args[1]
    IN  IF probe.args[2] = << >>
        THEN probe.result = <<PathKind(u), << >> >>
        ELSE /\ MimeOf(probe.args[2][1]) \in {"text/plain", "application/octet-stream"}
                  => probe.result[1] = PathKind(u)
             /\ MimeOf(probe.args[2][1]) \notin TableMimes
                  => probe.result[1] = "Unknown"

\* 'mod.ts' served as 'foo/bar' was mapped to Unknown, where it is
\* TypeScript without a content type and as text/plain
C28_Witness ==
  /\ probe.fn = "map_content_type"
  /\ probe.args = <<"https://h/mod.ts", <<"foo/bar">> >>
  /\ probe.result[1] = "Unknown"
  /\ map_content_type("https://h/mod.ts", << >>)[1] = "TypeScript"
  /\ map_content_type("https://h/mod.ts", <<"text/plain ; charset=utf-16le">>)[1]
       = "TypeScript"

\* C29: strip_shebang of a text that starts with "#!" and has a newline
\* returns the suffix of the text that begins at its first newline, the
\* newline included.
C29_SuffixFromFirstNewline ==
  (/\ probe.fn = "strip_shebang"
   /\ HasShebang(probe.args[1])
   /\ Newlines(probe.args[1]) # {}) =>
    \E i \in Newlines(probe.args[1]) :
      /\ \A j \in 1..(i - 1) : probe.args[1][j] # 10
      /\ Len(probe.result) = Len(probe.args[1]) - i + 1
      /\ \A k \in 1..Len(probe.result) : probe.result[k] = probe.args[1][i + k - 1]

\* strip_shebang of "#!", two newlines and a body returned the two newlines
\* and the body
C29_Witness ==
  /\ probe.fn = "strip_shebang"
  /\ probe.args = << <<35, 33, 10, 10, 120>> >>
  /\ probe.result = <<10, 10, 120>>

\* whether res is the outcome of a decoding that gave decoded: an error when
\* the decoding failed, else a File whose source is the decoded text without
\* its shebang line
SameText(res, decoded) ==
  IF decoded = << >>
  THEN ~res.ok
  ELSE res.ok /\ res.file.source = strip_shebang(decoded[1])

\* whether a header map declares a charset
DeclaresCharset(headers) ==
  /\ "content-type" \in DOMAIN headers
  /\ CharsetSegments(headers["content-type"]) # {}

\* C22: bytes that start with a UTF-16LE byte-order mark are decoded without
\* a declared charset as they are with the declared charset utf-16le, by
\* fetch_local and by build_remote_file when the content type declares no
\* charset.
C22_BomDetectedWithoutCharset ==
  /\ (/\ probe.fn = "fetch_local"
      /\ probe.args[2] # << >>
      /\ StartsWith(probe.args[2][1], <<255, 254>>))
       => SameText(probe.result,
                   get_source_from_bytes(probe.args[2][1], Some("utf-16le")))
  /\ (/\ probe.fn = "build_remote_file"
      /\ ~DeclaresCharset(probe.args[3])
      /\ StartsWith(probe.args[2], <<255, 254>>))
       => SameText(probe.result,
                   get_source_from_bytes(probe.args[2], Some("utf-16le")))

C25_NotModifiedReturnsFromStore ==
  [][\A c \in SeqCalls :
       call'[c].notmodified =>
         /\ store' = store
         /\ call'[c].pc \in {"cached", "done"}
         /\ ~call[c].notmodified =>
              /\ call'[c].cur = call[c].hop
              /\ call'[c].climit = 10]_vars

\* C30: when a fetch has ended in an error, the store is what it was when the
\* fetch was called.
C30_FailedFetchLeavesStore ==
  \A c \in SeqCalls :
    (/\ call[c].kind = "fetch"
     /\ call[c].pc = "done"
     /\ ~call[c].result.ok) => store = call[c].store0

\* the etag header of the store entry of url, if there is one
StoredEtag(st, url) ==
  IF url \in DOMAIN st /\ "etag" \in DOMAIN st[url].headers
  THEN <<st[url].headers["etag"]>>
  ELSE << >>

\* C24: a hop of fetch_remote that reaches the network sends one request, for
\* the specifier of the hop, and nothing else sends a request; the etag of
\* the request is the etag header of the store entry of that specifier, or
\* none when there is no entry; a hop whose read of the entry fails sends
\* its request without an etag.
C24_OneRequestWithStoredEtag ==
  [][\A c \in SeqCalls :
       /\ (call'[c].pc = "await" /\ call[c].pc # "await") =>
            /\ call'[c].requested = Append(call[c].requested, call'[c].hop)
            /\ (FetchRemote(c) \/ FetchCached(c)) =>
                 call'[c].etag = StoredEtag(store, call'[c].hop)
            /\ EtagReadError(c) => call'[c].etag = None
            /\ FetchRemote(c) \/ FetchCached(c) \/ EtagReadError(c)
       /\ ~(call'[c].pc = "await" /\ call[c].pc # "await") =>
            \/ call'[c].requested = call[c].requested
            \/ call'[c].requested = << >>]_vars

\* a request went out without an etag although the store entry of its
\* specifier has one: the read of the entry had failed
C24_Witness ==
  /\ call[1].pc = "await"
  /\ call[1].etag = None
  /\ StoredEtag(store, call[1].hop) = <<"e1">>
  /\ Last(call[1].requested) = call[1].hop

\* C26: when the store reports NotFound for the specifier fetch_cached is
\* at, the requested one or one reached through stored location headers,
\* fetch_cached returns 'not present': a direct caller gets it, and
\* fetch_remote fails with NotFound under the setting Only and else sends
\* one request, for the specifier of its own hop.  When the read fails with
\* another error, fetch_cached and its caller return that error.
C26_NotPresentFallsBackToHop ==
  [][\A c \in SeqCalls :
       /\ (/\ call[c].pc = "cached"
           /\ call[c].climit >= 0
           /\ call[c].cur \notin DOMAIN store
           /\ call[c].from # "notmodified"
           /\ FetchCached(c)) =>
            IF call[c].from = "direct"
            THEN /\ call'[c].pc = "done"
                 /\ call'[c].result = OkNone
            ELSE IF cache_setting = Only
            THEN /\ call'[c].pc = "done"
                 /\ call'[c].result = Err("NotFound", call[c].hop)
                 /\ call'[c].requested = call[c].requested
            ELSE /\ call'[c].pc = "await"
                 /\ call'[c].hop = call[c].hop
                 /\ call'[c].requested = Append(call[c].requested, call[c].hop)
       /\ (call[c].pc = "cached" /\ FetchCachedReadError(c)) =>
            /\ call'[c].pc = "done"
            /\ call'[c].result = Err("Io", call[c].cur)
            /\ call'[c].requested = call[c].requested]_vars

\* the store holds the redirect record of http://h/a/m.ts but no record of
\* its target; fetch_cached has read both, and the request went out for
\* http://h/a/m.ts
C26_Witness ==
  /\ call[1].pc = "await"
  /\ call[1].hop = SpecA
  /\ SpecA \in DOMAIN store
  /\ HeaderGet(store[SpecA].headers, "location") = Some(SpecB)
  /\ SpecB \notin DOMAIN store
  /\ call[1].reads = <<SpecA, SpecB, SpecA>>
  /\ call[1].requested = <<SpecA>>

\* the positions of a call that has been made and has not returned
InFlight == {"local", "remote", "cached", "await", "panicked"}

\* C23: every call of fetch returns, a File or an error, whatever the
\* transport answers and whatever the store holds.
C23_EveryFetchReturns ==
  \A c \in SeqCalls :
    (call[c].kind = "fetch" /\ call[c].pc \in InFlight) ~> (call[c].pc = "done")

\* every call of fetch ends: it returns, or it stops at the unwrap of the
\* NotModified branch
FetchEnds ==
  \A c \in SeqCalls :
    (call[c].kind = "fetch" /\ call[c].pc \in InFlight)
      ~> (call[c].pc \in {"done", "panicked"})

\* a call of fetch sends at most 11 requests, and one that has sent 11 and
\* was answered with a redirect again fails with TooManyRedirects
FetchRequestsBounded ==
  \A c \in SeqCalls :
    call[c].kind = "fetch" =>
      /\ Len(call[c].requested) <= FetchRedirectLimit + 1
      /\ (/\ call[c].pc = "done"
          /\ Len(call[c].requested) = FetchRedirectLimit + 1
          /\ Len(call[c].writes) = FetchRedirectLimit + 1
          /\ ~call[c].notmodified
          /\ call[c].received = None) =>
           call[c].result = Err("TooManyRedirects", "")

\* C31: a File seeded with insert_cached is not replaced by a fetch: when a
\* fetch that missed the in-memory cache inserts its File while the cache
\* holds a seeded File for its specifier, the seeded File stays.
C31_SeededFileSurvivesFetch ==
  [][\A c \in Calls :
       (/\ call[c].kind = "fetch"
        /\ call[c].pc = "insert_locked"
        /\ call'[c].pc = "done"
        /\ call[c].specifier \in DOMAIN cache
        /\ cache[call[c].specifier] \in SyntheticFiles) =>
         cache'[call[c].specifier] = cache[call[c].specifier]]_vars

\* C32: under ReloadSome a fetch that returns the File of a specifier the
\* setting excludes from reuse, built in that fetch from the store or from a
\* response, has sent a request for that specifier, also when the specifier
\* was reached as the target of a stored redirect record.
C32_ReloadedTargetIsRequested ==
  \A c \in SeqCalls :
    (/\ cache_setting.kind = "ReloadSome"
     /\ call[c].kind = "fetch"
     /\ call[c].pc = "done"
     /\ call[c].result.ok
     /\ call[c].reads # << >>
     /\ ~should_use(cache_setting, call[c].result.file.specifier)) =>
      call[c].result.file.specifier \in Range(call[c].requested)

====
